---------------------------- MODULE Spec2Model ----------------------------
(***************************************************************************)
(* Model of the HCS-10 audit agent:                                        *)
(*   - handleConnectionRequest (hedera-hcs.js): the connection handshake   *)
(*     run for every envelope delivered on the agent's inbound topic;      *)
(*   - processAuditRequest (agent.js): the bounded tool-calling loop run   *)
(*     for every dispatched request;                                       *)
(*   - the subscription callback with saveLastTimestamp and               *)
(*     loadLastTimestamp (hedera-hcs.js): concurrent callback runs, the    *)
(*     checkpoint and the state file;                                      *)
(*   - sendAuditResult, inscribeDataToTopic and submitMessageToTopic       *)
(*     (hedera-hcs.js): the frames and the pointer message on the ledger;  *)
(*   - reportFinalError and reportFinalResult (agent.js) over their        *)
(*     parameters;                                                         *)
(*   - runAuditToolInDocker and runForgeTestInDocker (audit-tools.js): the *)
(*     workspace of an invocation and its removal;                         *)
(*   - initializeHederaClient (hedera-hcs.js): the retries of the client   *)
(*     creation.                                                           *)
(* JavaScript strings are sequences of one-character strings, an optional  *)
(* value (undefined / null) is the empty tuple and a present value v is    *)
(* the one-element tuple <<v>>.                                            *)
(***************************************************************************)
EXTENDS Integers, Sequences, FiniteSets, TLC

VARIABLES
    \* ---- transport (Hedera consensus service) ----
    nextTopic,        \* number of topics created so far; topic ids are 1..nextTopic
    inboundLog,       \* messages appended to config.agentInboundTopicId by the agent
    topicLog,         \* topicLog[t]: messages appended to created topic t
    \* ---- subscription / handleConnectionRequest ----
    delivered,        \* number of envelopes delivered so far
    message,          \* the envelope being handled
    hpc,              \* position inside handleConnectionRequest
    requesterInboundTopicId,
    requesterAccountId,
    auditQueryString,
    connectionTopicId,
    outcome,          \* return site of the handler for the current envelope
    hops,             \* transport operations attempted by the current handler
    dispatches,       \* requestData handed to the callback, one entry per call
    \* ---- processAuditRequest ----
    requestData,
    spc,              \* position inside processAuditRequest
    loopCount,
    fetchedFiles,
    fetchedMainFilePath,
    result,           \* last reply of chat.sendMessage
    callIdx,          \* number of function calls of this turn already handled
    functionResponses,
    engineSent,       \* number of chat.sendMessage calls made
    lastAct,          \* what the last step of the session did, and whether it
                      \* invoked a collaborator of availableFunctions
    lastFetch,        \* outcome of the most recent getSourceCode call
    finalizeHandled,  \* a finalizeAuditReport call has been handled
    errorReasons,     \* reasons passed to reportFinalError, in order
    sendCalls,        \* sendAuditResult invocations: [status, topic, outcome, payload]
    \* ---- subscription callback and checkpoint (attemptSubscription) ----
    running,          \* the agent process is up and subscribed
    restarts,         \* number of times the process stopped
    inbox,            \* inbox[i]: what the i-th envelope of the inbound topic holds
    streamPos,        \* index of the next envelope the subscription delivers
    queryStartTime,
    lastProcessedTimestamp,
    stateFile,        \* lastProcessedTimestamp stored in hcs_state.json
    deliveries,       \* one record per run of the subscription callback
    \* ---- sendAuditResult / inscribeDataToTopic / submitMessageToTopic ----
    ledger,           \* ledger[t]: the messages appended to topic t, in order
    opc,              \* position inside sendAuditResult / inscribeDataToTopic
    caller,           \* "send": inscribeDataToTopic runs inside sendAuditResult
    data,             \* the payload handed to inscribeDataToTopic
    channel,          \* connectionTopicId of the running sendAuditResult
    pointerBytes,     \* byte length of the pointer message of this run
    newTopicId,
    chunkIdx,         \* the loop variable i of inscribeDataToTopic
    inscribed,        \* value returned by inscribeDataToTopic
    failedAt,         \* the ledger operation of inscribeDataToTopic that failed
    submitted,        \* result of the last submitMessageToTopic call
    sendResult,       \* how sendAuditResult ended: "ok" or "threw"
    history,          \* finished runs
    \* ---- runAuditToolInDocker / runForgeTestInDocker ----
    rpc,              \* position inside the running invocation
    tool,             \* the runner that was called last
    hostProjectDir,   \* the temp directory: "absent", "present", "removed"
    container,        \* the container: "null", "created", "removed"
    pending,          \* how the try or the catch completed, while finally runs
    cleanup,          \* the removals attempted by the finally block
    invocations,      \* finished invocations
    \* ---- initializeHederaClient ----
    hederaClient,     \* the module-level client, None until one is created
    cpc,              \* position inside the running initializeHederaClient chain
    attempt,          \* the parameter attempt of the running call
    initCaller,       \* the function that made the outermost call
    attemptsMade,     \* attempts to create a client since the process started
    sleeps,           \* the delays slept between attempts, in milliseconds
    initReturns          \* the calls that returned, with the client they got

transportVars == <<nextTopic, inboundLog, topicLog>>
routerVars == <<delivered, message, hpc, requesterInboundTopicId, requesterAccountId,
                auditQueryString, connectionTopicId, outcome, hops, dispatches>>
sessionVars == <<requestData, spc, loopCount, fetchedFiles, fetchedMainFilePath, result,
                 callIdx, functionResponses, engineSent, lastAct, lastFetch,
                 finalizeHandled, errorReasons, sendCalls>>
listenerVars == <<running, restarts, inbox, streamPos, queryStartTime,
                  lastProcessedTimestamp, stateFile, deliveries>>
storeVars == <<ledger, opc, caller, data, channel, pointerBytes, newTopicId, chunkIdx,
               inscribed, failedAt, submitted, sendResult, history>>
runnerVars == <<rpc, tool, hostProjectDir, container, pending, cleanup, invocations>>
clientVars == <<hederaClient, cpc, attempt, initCaller, attemptsMade, sleeps, initReturns>>
vars == <<transportVars, routerVars, sessionVars, listenerVars, storeVars, runnerVars,
          clientVars>>

-----------------------------------------------------------------------------
(* Bounds of the model *)
MaxEnvelopes == 2      \* envelopes delivered by the subscription
MaxCalls == 2          \* function calls in one engine reply
MaxInbound == 2        \* envelopes on the inbound topic
MaxDeliveries == 2     \* runs of the subscription callback (redeliveries included)
MaxRestarts == 1       \* times the agent process stops and is started again
MaxRuns == 2           \* runs of inscribeDataToTopic / sendAuditResult
MaxReports == 2        \* calls of reportFinalError / reportFinalResult in a row
MaxInvocations == 2    \* invocations of the sandboxed runners in a row
MaxInitCalls == 3      \* calls of initializeHederaClient that return

(* Program constants *)
MAX_LOOPS == 15
MAX_MESSAGE_SIZE_BYTES == 1024
MAX_RETRIES == 5
INITIAL_BACKOFF_MS == 1000

-----------------------------------------------------------------------------
(* Optional values and strings *)
None == <<>>
Some(v) == <<v>>
IsSome(o) == o # <<>>
Val(o) == o[1]

Digits == {"0", "1", "2", "3", "4", "5", "6", "7", "8", "9"}
Letters == {"a", "t", "x", "_"}
IsDigit(c) == c \in Digits
IsWordChar(c) == c \in Digits \cup Letters

\* JavaScript truthiness of an optional string: undefined and "" are falsy
Truthy(o) == IsSome(o) /\ Len(Val(o)) > 0

\* the free texts of the model (the m field of a request, the contractId
\* argument of a getSourceCode call)
Texts ==
    {<<>>,
     <<"x">>,
     <<"0", ".", "0", ".", "9">>,
     <<"x", " ", "0", ".", "0", ".", "9", "1", " ", "x">>,
     <<"x", "0", ".", "0", ".", "9">>,
     <<"0", ".", "0", ".", "9", "x">>,
     <<"0", ".", "0", ".", " ", "0", ".", "9">>,
     <<"1", "0", ".", "0", ".", "9", ",", "0", ".", "0", ".", "7", ".">>}

\* the operator_id values of the model
OperatorIds ==
    {<<>>,
     <<"t">>,
     <<"@">>,
     <<"t", "@">>,
     <<"@", "a">>,
     <<"t", "@", "a">>,
     <<"t", "t", "@", "a">>,
     <<"t", "@", "@", "a">>,
     <<"t", "@", "a", "@", "x">>}

\* \b of a JavaScript regular expression, between s[i] and s[i+1]
WordBoundary(s, i) ==
    LET before == i >= 1 /\ IsWordChar(s[i])
        after == i + 1 <= Len(s) /\ IsWordChar(s[i + 1])
    IN before # after

\* "0.0." followed by one or more digits occupies s[k..e]
IdShapeAt(s, k, e) ==
    /\ k >= 1 /\ e <= Len(s) /\ e >= k + 4
    /\ s[k] = "0" /\ s[k + 1] = "." /\ s[k + 2] = "0" /\ s[k + 3] = "."
    /\ \A j \in (k + 4)..e : IsDigit(s[j])

\* the same search without the two \b
MatchContractIdUnanchored(s) ==
    LET hits == {ke \in (1..Len(s)) \X (1..Len(s)) : IdShapeAt(s, ke[1], ke[2])}
    IN IF hits = {} THEN None
       ELSE LET k == CHOOSE k \in {h[1] : h \in hits} : \A h \in hits : k <= h[1]
                e == CHOOSE e \in {h[2] : h \in hits} :
                        /\ <<k, e>> \in hits
                        /\ \A h \in hits : h[1] = k => h[2] <= e
            IN Some(SubSeq(s, k, e))

\* auditQueryString.match(/\b(0\.0\.\d+)\b/): leftmost start, longest digit run
MatchContractId(s) ==
    LET hits == {ke \in (1..Len(s)) \X (1..Len(s)) :
                    /\ IdShapeAt(s, ke[1], ke[2])
                    /\ WordBoundary(s, ke[1] - 1)
                    /\ WordBoundary(s, ke[2])}
    IN IF hits = {} THEN None
       ELSE LET k == CHOOSE k \in {h[1] : h \in hits} : \A h \in hits : k <= h[1]
                e == CHOOSE e \in {h[2] : h \in hits} :
                        /\ <<k, e>> \in hits
                        /\ \A h \in hits : h[1] = k => h[2] <= e
            IN Some(SubSeq(s, k, e))

\* contractIdArg.match(/^0\.0\.\d+$/) on an optional string
IsContractId(o) == IsSome(o) /\ IdShapeAt(Val(o), 1, Len(Val(o)))

\* String.prototype.includes('@')
IncludesAt(s) == \E i \in 1..Len(s) : s[i] = "@"

\* String.prototype.split('@')
RECURSIVE SplitAt(_)
SplitAt(s) ==
    IF ~IncludesAt(s) THEN <<s>>
    ELSE LET i == CHOOSE i \in 1..Len(s) : s[i] = "@" /\ \A j \in 1..(i - 1) : s[j] # "@"
         IN <<SubSeq(s, 1, i - 1)>> \o SplitAt(SubSeq(s, i + 1, Len(s)))

\* array destructuring: element i, undefined when the array is shorter
Element(arr, i) == IF i <= Len(arr) THEN Some(arr[i]) ELSE None


-----------------------------------------------------------------------------
(* Transport: topics of the consensus service *)

AgentInboundTopicId == 0          \* config.agentInboundTopicId
AgentAccountId == <<"a">>         \* config.agentHederaAccountId

\* buildHcs10Message: the fields of the JSON object that is serialised
buildHcs10Message(operation, fields) ==
    [p |-> "hcs-10", op |-> operation, operator_id |-> <<AgentInboundTopicId, AgentAccountId>>,
     connection_topic_id |-> fields.connection_topic_id,
     connected_account_id |-> fields.connected_account_id,
     connection_id |-> fields.connection_id,
     data |-> fields.data]

NoFields == [connection_topic_id |-> None, connected_account_id |-> None,
             connection_id |-> None, data |-> None]

\* submitMessageToTopic: every failure is caught inside and turned into the
\* return value null; ledgerOk is the outcome of the ledger transaction
submitMessageToTopic(ledgerOk) ==
    [threw |-> FALSE, appended |-> ledgerOk]

\* the logs after an append of msg on topicId
AppendedInbound(topicId, msg) ==
    IF topicId = AgentInboundTopicId THEN Append(inboundLog, msg) ELSE inboundLog
AppendedTopic(topicId, msg) ==
    IF topicId = AgentInboundTopicId THEN topicLog
    ELSE [topicLog EXCEPT ![topicId] = Append(@, msg)]

-----------------------------------------------------------------------------
(* Envelopes delivered on the inbound topic *)

OptOperatorIds == {None} \cup {Some(s) : s \in OperatorIds}
OptTexts == {None} \cup {Some(t) : t \in Texts}

Payloads ==
    [kind : {"json"}, p : {"hcs-10", "other"},
     op : {"connection_request", "connection_created", "message"},
     operator_id : OptOperatorIds, m : OptTexts]
    \cup
    [kind : {"missing", "garbage"}, p : {"other"}, op : {"message"},
     operator_id : {None}, m : {None}]

NoMessage == [sequenceNumber |-> 0,
              contents |-> [kind |-> "missing", p |-> "other", op |-> "message",
                            operator_id |-> None, m |-> None]]

\* the guard of line 102: operator_id present and containing '@'
OperatorIdAccepted(o) == Truthy(o) /\ IncludesAt(Val(o))

\* line 106: const [requesterInboundTopicId, requesterAccountId] = split('@')
InboundTopicOf(parts) == Element(parts, 1)
AccountOf(parts) == Element(parts, 2)

\* what the subscription delivers for a message the agent itself appended to
\* its inbound topic (lines 123-130): the fields of the serialised object that
\* the handler reads; the operator id is <inbound topic>@<account>, the inbound
\* topic written "t" as in OperatorIds, and there is no m field
OwnEnvelope(msg) ==
    [kind |-> "json", p |-> msg.p, op |-> msg.op,
     operator_id |-> Some(<<"t", "@">> \o msg.operator_id[2]), m |-> None]
OwnEnvelopes == {OwnEnvelope(inboundLog[j]) : j \in 1..Len(inboundLog)}

\* the return site reached by lines 85-113 for payload c, "create" when the
\* handler goes on to createConnectionTopic
ParseExitOperatorOnly(c) ==
    IF c.kind # "json" THEN "threw"
    ELSE IF ~OperatorIdAccepted(c.operator_id) THEN "line104"
    ELSE "create"
ParseExitOpOnly(c) ==
    IF c.kind # "json" THEN "threw"
    ELSE IF c.op # "connection_request" THEN "line96"
    ELSE IF ~OperatorIdAccepted(c.operator_id) THEN "line104"
    ELSE IF ~Truthy(c.m) THEN "line112"
    ELSE "create"
ParseExit(c) ==
    IF c.kind # "json" THEN "threw"            \* line 87 or JSON.parse: caught at line 154
    ELSE IF c.p # "hcs-10" \/ c.op # "connection_request" THEN "line96"
    ELSE IF ~OperatorIdAccepted(c.operator_id) THEN "line104"
    ELSE IF ~Truthy(c.m) THEN "line112"
    ELSE "create"

\* The subscription callback (lines 237-246) is invoked with the next envelope
\* and runs handleConnectionRequest, lines 85-115, up to its first await:
\* decode, filter, destructure.
HCR_Receive ==
    /\ hpc = "idle"
    /\ delivered < MaxEnvelopes
    /\ delivered' = delivered + 1
    /\ \E c \in Payloads \cup OwnEnvelopes :
          LET exit == ParseExit(c)
              parts == IF exit \in {"line112", "create"}
                       THEN SplitAt(Val(c.operator_id)) ELSE <<>>
          IN /\ message' = [sequenceNumber |-> delivered + 1, contents |-> c]
             /\ requesterInboundTopicId' = InboundTopicOf(parts)
             /\ requesterAccountId' = AccountOf(parts)
             /\ auditQueryString' = IF exit \in {"line112", "create"} THEN c.m ELSE None
             /\ hpc' = IF exit = "create" THEN "create" ELSE "done"
             /\ outcome' = IF exit = "create" THEN "running" ELSE "skipped"
    /\ connectionTopicId' = None
    /\ hops' = <<>>
    /\ UNCHANGED <<transportVars, dispatches, sessionVars>>

\* createConnectionTopic and lines 115-121: a fresh topic, or an exception
\* (failed transaction, no topic id in the receipt) caught at line 154
HCR_CreateTopic ==
    /\ hpc = "create"
    /\ hops' = Append(hops, "create")
    /\ \E created \in BOOLEAN :
          IF created
          THEN /\ nextTopic' = nextTopic + 1
               /\ topicLog' = Append(topicLog, <<>>)
               /\ connectionTopicId' = Some(nextTopic + 1)
               /\ hpc' = "ack"
               /\ outcome' = "running"
          ELSE /\ UNCHANGED <<nextTopic, topicLog, connectionTopicId>>
               /\ hpc' = "done"
               /\ outcome' = "failed"
    /\ UNCHANGED <<inboundLog, delivered, message, requesterInboundTopicId,
                   requesterAccountId, auditQueryString, dispatches, sessionVars>>

\* the connection_created payload of lines 123-127
connectionCreatedPayload ==
    buildHcs10Message("connection_created",
        [connection_topic_id |-> connectionTopicId,
         connected_account_id |-> requesterAccountId,
         connection_id |-> Some(message.sequenceNumber),
         data |-> None])

\* lines 128-134: publish the ack on the inbound topic
HCR_Ack ==
    /\ hpc = "ack"
    /\ hops' = Append(hops, "ack")
    /\ \E ledgerOk \in BOOLEAN :
          LET r == submitMessageToTopic(ledgerOk) IN
          /\ inboundLog' = IF r.appended
                           THEN AppendedInbound(AgentInboundTopicId, connectionCreatedPayload)
                           ELSE inboundLog
          /\ IF r.threw
             THEN hpc' = "done" /\ outcome' = "failed"
             ELSE hpc' = "extract" /\ outcome' = "running"
    /\ UNCHANGED <<nextTopic, topicLog, delivered, message, requesterInboundTopicId,
                   requesterAccountId, auditQueryString, connectionTopicId,
                   dispatches, sessionVars>>

\* the inline error of line 140
errorPayload ==
    buildHcs10Message("message", [NoFields EXCEPT !.data = Some([kind |-> "error", topic |-> 0])])

\* lines 136-143: extract the contract id, or send the inline error
HCR_Extract ==
    /\ hpc = "extract"
    /\ IF IsSome(MatchContractId(Val(auditQueryString)))
       THEN /\ hpc' = "dispatch" /\ outcome' = "running"
            /\ UNCHANGED <<hops, topicLog>>
       ELSE /\ hops' = Append(hops, "inlineError")
            /\ \E ledgerOk \in BOOLEAN :
                  LET r == submitMessageToTopic(ledgerOk) IN
                  /\ topicLog' = IF r.appended
                                 THEN AppendedTopic(Val(connectionTopicId), errorPayload)
                                 ELSE topicLog
                  \* line 141: an exception of the send is ignored
                  /\ hpc' = "done" /\ outcome' = "failed"
    /\ UNCHANGED <<nextTopic, inboundLog, delivered, message, requesterInboundTopicId,
                   requesterAccountId, auditQueryString, connectionTopicId,
                   dispatches, sessionVars>>

\* the requestData of lines 146-151
RequestDataOf ==
    [user_query |-> Val(auditQueryString),
     contract_id_from_user |-> Val(MatchContractId(Val(auditQueryString))),
     reply_topic_id |-> connectionTopicId,
     requestor_account_id |-> Val(requesterAccountId)]

\* lines 145-157: the callback is awaited; an exception of the callback is
\* caught at line 154
HCR_Dispatch ==
    /\ hpc = "dispatch"
    /\ dispatches' = Append(dispatches,
                        [sequenceNumber |-> message.sequenceNumber, data |-> RequestDataOf])
    /\ \E returned \in BOOLEAN :
          outcome' = IF returned THEN "dispatched" ELSE "dispatchThrew"
    /\ hpc' = "done"
    /\ UNCHANGED <<transportVars, delivered, message, requesterInboundTopicId,
                   requesterAccountId, auditQueryString, connectionTopicId, hops,
                   sessionVars>>

\* handleConnectionRequest has returned to the subscription callback; the
\* locals of the invocation are gone
HCR_Return ==
    /\ hpc = "done"
    /\ hpc' = "idle"
    /\ message' = NoMessage
    /\ requesterInboundTopicId' = None
    /\ requesterAccountId' = None
    /\ auditQueryString' = None
    /\ connectionTopicId' = None
    /\ outcome' = "none"
    /\ hops' = <<>>
    /\ UNCHANGED <<transportVars, delivered, dispatches, sessionVars>>

-----------------------------------------------------------------------------
(* Result delivery, as far as the session observes it *)

\* the pointer message of sendAuditResult, lines 295-299
hcs10Payload(reportContentTopicId) ==
    buildHcs10Message("message", [NoFields EXCEPT !.data = Some([kind |-> "hcs://1/", topic |-> reportContentTopicId])])

\* sendAuditResult: inscription of the report on a new topic, then the pointer
\* on the connection topic.  o is what the transport does:
\*   "inscribeFailed"  inscribeDataToTopic returns null and line 291 throws
\*   "pointerFailed"   the report is inscribed, the pointer is not appended
\*   "sent"            the report is inscribed and the pointer is appended
SendOutcomes == {"inscribeFailed", "pointerFailed", "sent"}
sendAuditResult(connectionTopic, resultData, o) ==
    /\ sendCalls' = Append(sendCalls, [status |-> resultData.status, topic |-> connectionTopic,
                                       outcome |-> o, payload |-> resultData])
    /\ IF o = "inscribeFailed"
       THEN UNCHANGED <<nextTopic, topicLog>>
       ELSE /\ nextTopic' = nextTopic + 1
            /\ topicLog' =
                 LET withReport == Append(topicLog, <<>>)
                 IN IF o = "sent" /\ connectionTopic \in 1..nextTopic
                    THEN [withReport EXCEPT ![connectionTopic] =
                             Append(@, hcs10Payload(nextTopic + 1))]
                    ELSE withReport
    /\ UNCHANGED inboundLog

\* contractId || "Unknown", line 194
effectiveContractId(contractId) == IF contractId = <<>> THEN <<"Unknown">> ELSE contractId

\* the report of lines 196-209; a template literal is the tuple of its parts
errorReportObjectNoFinding(contractId, errorMessage) ==
    [contract_id |-> effectiveContractId(contractId),
     score |-> 0,
     summary |-> <<"Audit failed for ", effectiveContractId(contractId), ": ", errorMessage>>,
     findings |-> <<>>,
     tools_used |-> <<>>]
errorReportObject(contractId, errorMessage) ==
    [contract_id |-> effectiveContractId(contractId),
     score |-> 0,
     summary |-> <<"Audit failed for ", effectiveContractId(contractId), ": ", errorMessage>>,
     findings |-> <<[title |-> "Audit Process Error",
                     severity |-> "Critical",
                     description |-> <<"The automated audit process encountered an error: ",
                                       errorMessage>>,
                     confirmation |-> "N/A"]>>,
     tools_used |-> <<>>]

\* a report the engine passes to finalizeAuditReport
EngineReport(contractId) ==
    [contract_id |-> contractId, score |-> 80, summary |-> <<"engine summary">>,
     findings |-> <<>>, tools_used |-> <<"slither">>]

\* the topic id handed to sendAuditResult; 0 stands for undefined, which is
\* no topic of the ledger
TopicArg(connectionTopic) == IF IsSome(connectionTopic) THEN Val(connectionTopic) ELSE 0

\* reportFinalError, lines 192-230 (SIMULATE_REQUEST is false)
reportFinalError(connectionTopic, errorMessage, o) ==
    LET finalPayload == [status |-> "error",
                         report |-> errorReportObject(requestData.contract_id_from_user,
                                                      errorMessage)]
    IN /\ errorReasons' = Append(errorReasons, errorMessage)
       /\ IF IsSome(connectionTopic)
          THEN sendAuditResult(Val(connectionTopic), finalPayload, o)
          ELSE UNCHANGED <<transportVars, sendCalls>>

\* reportFinalResult, lines 232-251
reportFinalResult(connectionTopic, hasReport, o) ==
    IF ~hasReport
    THEN reportFinalError(connectionTopic, "Internal error: Final report object was missing.", o)
    ELSE /\ sendAuditResult(TopicArg(connectionTopic),
                            [status |-> "success",
                             report |-> EngineReport(requestData.contract_id_from_user)], o)
         /\ UNCHANGED errorReasons

NoReport == UNCHANGED <<transportVars, errorReasons, sendCalls>>

-----------------------------------------------------------------------------
(* The reasoning engine and the collaborators *)

\* a reply of chat.sendMessage; nCalls = -1 when the candidate has no parts,
\* so that functionCalls is undefined
Responses ==
    {[kind |-> "empty", finishReason |-> "NONE", nCalls |-> -1],
     [kind |-> "noCandidate", finishReason |-> "NONE", nCalls |-> -1]}
    \cup [kind : {"candidate"}, finishReason : {"TOOL_CALLS", "STOP"},
          nCalls : (-1)..MaxCalls]
    \cup {[kind |-> "candidate", finishReason |-> "MAX_TOKENS", nCalls |-> -1]}

NoArgs == [defined |-> FALSE, contractId |-> None, toolName |-> FALSE, report |-> FALSE,
           testContractCode |-> FALSE, testContractFileName |-> "none",
           originalContractFileName |-> "none"]
SomeArgs == [NoArgs EXCEPT !.defined = TRUE]

\* the function calls the engine may put in a reply
Calls ==
    {[name |-> "getSourceCode", args |-> [SomeArgs EXCEPT !.contractId = c]] :
        c \in OptTexts}
    \cup {[name |-> "runAuditToolInDocker", args |-> a] :
        a \in {NoArgs, SomeArgs, [SomeArgs EXCEPT !.toolName = TRUE]}}
    \cup {[name |-> "executeSolidityTest", args |-> a] :
        a \in {NoArgs}
           \cup {[SomeArgs EXCEPT !.testContractCode = code, !.testContractFileName = tf,
                                  !.originalContractFileName = of] :
                   code \in BOOLEAN, tf \in {"none", "Exploit.t.sol", "Exploit.sol"},
                   of \in {"none", "Main.sol", "Other.sol"}}}
    \cup {[name |-> "finalizeAuditReport", args |-> a] :
        a \in {NoArgs, SomeArgs, [SomeArgs EXCEPT !.report = TRUE]}}
    \cup {[name |-> "getBalance", args |-> SomeArgs],
          [name |-> "toString", args |-> SomeArgs]}

\* the own properties of the object literal of lines 9-13
availableFunctions == {"getSourceCode", "runAuditToolInDocker", "executeSolidityTest"}

\* properties the object literal inherits from Object.prototype
ObjectPrototype == {"toString", "constructor", "valueOf", "hasOwnProperty"}

\* lines 99-100: availableFunctions[functionName] is truthy
FuncFound(functionName) == functionName \in availableFunctions \cup ObjectPrototype

\* results of fetchVerifiedSource for a well-formed contract id
MainSol == "contracts/Main.sol"
LibSol == "contracts/libraries/Lib.sol"
FetchResults ==
    {[success |-> FALSE, files |-> <<>>, mainFileName |-> None],
     [success |-> TRUE, files |-> <<[path |-> MainSol, content |-> "code"]>>,
      mainFileName |-> Some(MainSol)],
     [success |-> TRUE,
      files |-> <<[path |-> LibSol, content |-> "code"], [path |-> MainSol, content |-> ""]>>,
      mainFileName |-> Some(MainSol)]}

\* String.prototype.includes on the paths and names of the model
PathIncludes(path, needle) ==
    <<path, needle>> \in {<<MainSol, MainSol>>, <<MainSol, "Main.sol">>,
                          <<LibSol, LibSol>>, <<LibSol, "Lib.sol">>}

\* Array.prototype.find(f => f.path.includes(needle))
FindFile(files, needle) ==
    LET idx == {i \in 1..Len(files) : IsSome(needle) /\ PathIncludes(files[i].path, Val(needle))}
    IN IF idx = {} THEN None
       ELSE Some(files[CHOOSE i \in idx : \A j \in idx : i <= j])

\* String.prototype.endsWith('.t.sol') on the file names of the model
EndsWithTSol(name) == name = "Exploit.t.sol"

\* the errors of line 170: the one of lines 125 and 142, and every other one
FetchFirst == "Host execution error: source file data has not been successfully fetched yet"
HostError == "Host execution error"

Response(name, success, error) ==
    [name |-> name, success |-> success, error |-> error]

\* runForgeTestInDocker, audit-tools.js lines 311-327: the suffix check, then
\* the undeclared identifier originalContractFileName is read (ReferenceError)
runForgeTestInDocker(args) ==
    IF ~EndsWithTSol(args.testContractFileName)
    THEN [threw |-> FALSE, success |-> FALSE, error |-> "tool failure"]
    ELSE [threw |-> TRUE, success |-> FALSE, error |-> HostError]

\* outcomes of runAuditToolInDocker for a non-empty file set and a main path
AuditToolResults ==
    {[threw |-> FALSE, success |-> TRUE, error |-> "none"],
     [threw |-> FALSE, success |-> FALSE, error |-> "tool failure"],
     [threw |-> TRUE, success |-> FALSE, error |-> HostError]}


-----------------------------------------------------------------------------
(* processAuditRequest *)

Act(what, invoked) == [what |-> what, invoked |-> invoked]

\* chat.sendMessage: a reply, or an exception that leaves processAuditRequest
SendMessage ==
    /\ engineSent' = engineSent + 1
    /\ \/ \E r \in Responses : result' = r /\ spc' = "loop"
       \/ result' = result /\ spc' = "threw"

\* lines 25-37
PAR_Start ==
    /\ spc = "start"
    /\ SendMessage
    /\ lastAct' = Act("sendMessage", FALSE)
    /\ UNCHANGED <<transportVars, routerVars, requestData, loopCount, fetchedFiles,
                   fetchedMainFilePath, callIdx, functionResponses,
                   lastFetch, finalizeHandled, errorReasons, sendCalls>>

\* the loop condition of line 39
LoopGuardInclusive(c) == c <= MAX_LOOPS
LoopGuard(c) == c < MAX_LOOPS

\* !functionCalls || functionCalls.length === 0
NoFunctionCallsUndefinedOnly(r) == r.nCalls < 0
NoFunctionCalls(r) == r.nCalls <= 0

\* lines 39-83: one more iteration, examination of the reply
PAR_LoopTop ==
    /\ spc = "loop"
    /\ lastAct' = Act("loopTop", FALSE)
    /\ IF ~LoopGuard(loopCount)
       THEN /\ spc' = "afterLoop"
            /\ NoReport
            /\ UNCHANGED <<loopCount, callIdx, functionResponses>>
       ELSE /\ loopCount' = loopCount + 1
            /\ \E o \in SendOutcomes :
               LET topic == requestData.reply_topic_id IN
               IF result.kind = "empty" THEN
                    /\ reportFinalError(topic, "AI response was empty.", o)
                    /\ spc' = "done"
                    /\ UNCHANGED <<callIdx, functionResponses>>
               ELSE IF result.kind = "noCandidate" THEN
                    /\ reportFinalError(topic, "AI response contained no candidates.", o)
                    /\ spc' = "done"
                    /\ UNCHANGED <<callIdx, functionResponses>>
               ELSE IF result.finishReason \notin {"TOOL_CALLS", "STOP"} THEN
                    /\ reportFinalError(topic, "AI processing error", o)
                    /\ spc' = "done"
                    /\ UNCHANGED <<callIdx, functionResponses>>
               ELSE IF result.finishReason = "STOP" /\ NoFunctionCalls(result) THEN
                    \* lines 68-77 report and fall through to the for loop
                    /\ reportFinalError(topic,
                          IF fetchedFiles = None
                          THEN "AI stopped before source code could be fetched."
                          ELSE "AI stopped unexpectedly before generating final report.", o)
                    /\ IF result.nCalls < 0
                       THEN \* for (... of undefined) throws a TypeError
                            spc' = "threw" /\ UNCHANGED <<callIdx, functionResponses>>
                       ELSE spc' = "calls" /\ callIdx' = 0 /\ functionResponses' = <<>>
               ELSE IF result.finishReason = "TOOL_CALLS" /\ NoFunctionCalls(result) THEN
                    /\ reportFinalError(topic, "AI tool call error: No function calls provided.", o)
                    /\ spc' = "afterLoop"
                    /\ UNCHANGED <<callIdx, functionResponses>>
               ELSE /\ o = "sent"
                    /\ NoReport
                    /\ spc' = "calls" /\ callIdx' = 0 /\ functionResponses' = <<>>
    /\ UNCHANGED <<routerVars, requestData, fetchedFiles, fetchedMainFilePath, result,
                   engineSent, lastFetch, finalizeHandled>>

\* the guard of line 124
SourceFetchedAlways(files, mainFilePath) == TRUE
SourceFetched(files, mainFilePath) == files # None /\ Truthy(mainFilePath)

\* the guard of line 141
FilesFetched(files) == files # None /\ Len(Val(files)) > 0

\* lines 111-119: the fetched-file state after a getSourceCode result
FetchedFilesAfterKeep(functionResult) ==
    IF functionResult.success THEN Some(functionResult.files) ELSE fetchedFiles
FetchedFilesAfter(functionResult) ==
    IF functionResult.success THEN Some(functionResult.files) ELSE None
FetchedMainAfter(functionResult) ==
    IF functionResult.success THEN functionResult.mainFileName ELSE None


\* where the session goes after a finalizeAuditReport call (the return of line 96)
FinalizeNextCall == "calls"
FinalizeNext == "done"

\* the session keeps handling the calls of the turn
ContinueSkipping(act, response) ==
    /\ lastAct' = act
    /\ functionResponses' = Append(functionResponses, response)
    /\ callIdx' = callIdx + 2
    /\ spc' = "calls"
    /\ NoReport
ContinueAborting(act, response) ==
    /\ lastAct' = act
    /\ functionResponses' = Append(functionResponses, response)
    /\ callIdx' = callIdx + 1
    /\ spc' = IF response.error = HostError THEN "threw" ELSE "calls"
    /\ NoReport
Continue(act, response) ==
    /\ lastAct' = act
    /\ functionResponses' = Append(functionResponses, response)
    /\ callIdx' = callIdx + 1
    /\ spc' = "calls"
    /\ NoReport

\* lines 103-122
HandleGetSourceCode(call) ==
    LET contractIdArg == IF call.args.defined THEN call.args.contractId ELSE None IN
    \E fetched \in FetchResults :
       LET valid == IsContractId(contractIdArg)
           functionResult ==
               IF ~valid
               THEN [success |-> FALSE, files |-> <<>>, mainFileName |-> None]
               ELSE fetched
       IN /\ ~valid => fetched = [success |-> FALSE, files |-> <<>>, mainFileName |-> None]
          /\ fetchedFiles' = FetchedFilesAfter(functionResult)
          /\ fetchedMainFilePath' = FetchedMainAfter(functionResult)
          /\ lastFetch' = IF functionResult.success THEN "ok" ELSE "fail"
          /\ Continue(Act(call.name, valid),
                      Response(call.name, functionResult.success,
                               IF functionResult.success THEN "none"
                               ELSE IF valid THEN "fetch failed"
                               ELSE "Invalid contractId format"))

\* lines 123-139
HandleRunAuditTool(call) ==
    /\ UNCHANGED <<fetchedFiles, fetchedMainFilePath, lastFetch>>
    /\ IF ~SourceFetched(fetchedFiles, fetchedMainFilePath)
       THEN Continue(Act(call.name, FALSE), Response(call.name, FALSE, FetchFirst))
       ELSE IF ~call.args.defined
       THEN Continue(Act(call.name, FALSE),
                     Response(call.name, FALSE, HostError))
       ELSE IF ~call.args.toolName
       THEN Continue(Act(call.name, FALSE),
                     Response(call.name, FALSE, HostError))
       ELSE \E r \in AuditToolResults :
               Continue(Act(call.name, TRUE),
                        IF r.threw
                        THEN Response(call.name, FALSE, HostError)
                        ELSE Response(call.name, r.success, r.error))

\* lines 140-166
HandleExecuteSolidityTest(call) ==
    /\ UNCHANGED <<fetchedFiles, fetchedMainFilePath, lastFetch>>
    /\ IF ~FilesFetched(fetchedFiles)
       THEN Continue(Act(call.name, FALSE), Response(call.name, FALSE, FetchFirst))
       ELSE IF ~call.args.defined
       THEN Continue(Act(call.name, FALSE),
                     Response(call.name, FALSE, HostError))
       ELSE LET needle == IF call.args.originalContractFileName # "none"
                          THEN Some(call.args.originalContractFileName)
                          ELSE fetchedMainFilePath
                originalFile == FindFile(Val(fetchedFiles), needle)
                originalCode == IF IsSome(originalFile) THEN Val(originalFile).content ELSE ""
            IN IF originalCode = ""
               THEN Continue(Act(call.name, FALSE),
                       Response(call.name, FALSE, HostError))
               ELSE IF ~call.args.testContractCode
               THEN Continue(Act(call.name, FALSE),
                       Response(call.name, FALSE, HostError))
               ELSE IF call.args.testContractFileName = "none"
               THEN Continue(Act(call.name, FALSE),
                       Response(call.name, FALSE, HostError))
               ELSE LET r == runForgeTestInDocker(call.args) IN
                    Continue(Act(call.name, TRUE),
                       IF r.threw
                       THEN Response(call.name, FALSE, HostError)
                       ELSE Response(call.name, r.success, r.error))

\* lines 92-97
HandleFinalize(call) ==
    /\ lastAct' = Act(call.name, FALSE)
    /\ finalizeHandled' = TRUE
    /\ UNCHANGED <<fetchedFiles, fetchedMainFilePath, lastFetch, functionResponses>>
    /\ IF ~call.args.defined
       THEN \* functionArgs.report on undefined throws a TypeError
            /\ spc' = "threw" /\ callIdx' = callIdx /\ NoReport
       ELSE /\ \E o \in SendOutcomes :
                  reportFinalResult(requestData.reply_topic_id, call.args.report, o)
            /\ spc' = FinalizeNext
            /\ callIdx' = callIdx + 1

\* lines 172-175
HandleUnknown(call) ==
    /\ UNCHANGED <<fetchedFiles, fetchedMainFilePath, lastFetch>>
    /\ Continue(Act(call.name, FALSE), Response(call.name, FALSE, "Function not found."))

\* lines 100-171 for a function that is found and is none of the three
\* capabilities: no branch of the try is taken and no result is pushed
HandleInherited(call) ==
    /\ UNCHANGED <<fetchedFiles, fetchedMainFilePath, lastFetch, functionResponses>>
    /\ lastAct' = Act(call.name, FALSE)
    /\ callIdx' = callIdx + 1
    /\ spc' = "calls"
    /\ NoReport

\* lines 86-176: the next function call of the reply
PAR_HandleCall ==
    /\ spc = "calls"
    /\ callIdx < result.nCalls
    /\ \E call \in Calls :
          IF call.name = "finalizeAuditReport" THEN HandleFinalize(call)
          ELSE /\ UNCHANGED finalizeHandled
               /\ IF call.name = "getSourceCode" THEN HandleGetSourceCode(call)
                  ELSE IF call.name = "runAuditToolInDocker" THEN HandleRunAuditTool(call)
                  ELSE IF call.name = "executeSolidityTest" THEN HandleExecuteSolidityTest(call)
                  ELSE IF FuncFound(call.name) THEN HandleInherited(call)
                  ELSE HandleUnknown(call)
    /\ UNCHANGED <<routerVars, requestData, loopCount, result, engineSent>>

\* lines 178-183: the results go to the engine, or the loop is left
PAR_AfterCalls ==
    /\ spc = "calls"
    /\ callIdx >= result.nCalls
    /\ IF Len(functionResponses) > 0
       THEN /\ SendMessage
            /\ lastAct' = Act("sendMessage", FALSE)
       ELSE /\ spc' = "afterLoop"
            /\ lastAct' = Act("break", FALSE)
            /\ UNCHANGED <<result, engineSent>>
    /\ UNCHANGED <<transportVars, routerVars, requestData, loopCount, fetchedFiles,
                   fetchedMainFilePath, callIdx, functionResponses,
                   lastFetch, finalizeHandled, errorReasons, sendCalls>>

\* the condition of line 187
TimedOutStrict(c) == c > MAX_LOOPS
TimedOut(c) == c >= MAX_LOOPS

\* lines 187-191
PAR_AfterLoop ==
    /\ spc = "afterLoop"
    /\ lastAct' = Act("afterLoop", FALSE)
    /\ spc' = "done"
    /\ IF TimedOut(loopCount)
       THEN \E o \in SendOutcomes :
              reportFinalError(requestData.reply_topic_id,
                               "Audit process timed out (max loops reached).", o)
       ELSE NoReport
    /\ UNCHANGED <<routerVars, requestData, loopCount, fetchedFiles, fetchedMainFilePath,
                   result, callIdx, functionResponses, engineSent,
                   lastFetch, finalizeHandled>>


-----------------------------------------------------------------------------
(* The sandboxed runners of audit-tools.js: the workspace of one invocation  *)
(* (the directory hostProjectDir and the container) and its removal          *)

NoCleanup == <<>>

RunnerIdle ==
    /\ rpc = "idle"
    /\ tool = "none"
    /\ hostProjectDir = "absent"
    /\ container = "null"
    /\ pending = "none"
    /\ cleanup = NoCleanup
    /\ invocations = <<>>

-----------------------------------------------------------------------------
(* initializeHederaClient (hedera-hcs.js lines 178-204): the module-level    *)
(* client and the retries of its creation                                    *)

\* Math.pow(2, n)
RECURSIVE Pow2(_)
Pow2(n) == IF n <= 0 THEN 1 ELSE 2 * Pow2(n - 1)

\* line 196
backoff(n) == INITIAL_BACKOFF_MS * Pow2(n - 1)

\* the condition of line 195
CanRetryInclusive(n) == n <= MAX_RETRIES
CanRetry(n) == n < MAX_RETRIES

\* the functions that call initializeHederaClient
ClientCallers ==
    {"startAgent", "createConnectionTopic", "listenForAuditRequests", "sendAuditResult",
     "createTopic", "submitMessageToTopic", "inscribeDataToTopic"}

\* the module has just been loaded (line 24)
ClientUnset ==
    /\ hederaClient = None
    /\ cpc = "idle"
    /\ attempt = 0
    /\ initCaller = "none"
    /\ attemptsMade = 0
    /\ sleeps = <<>>
    /\ initReturns = <<>>

\* startAgent has initialized the client at its first attempt
ClientReady ==
    /\ hederaClient = Some(1)
    /\ cpc = "idle"
    /\ attempt = 1
    /\ initCaller = "startAgent"
    /\ attemptsMade = 1
    /\ sleeps = <<>>
    /\ initReturns = <<[caller |-> "startAgent", client |-> 1]>>

-----------------------------------------------------------------------------
(* Specifications *)

NoRequestData == [user_query |-> <<>>, contract_id_from_user |-> <<>>,
                  reply_topic_id |-> None, requestor_account_id |-> <<>>]
NoResponse == [kind |-> "empty", finishReason |-> "NONE", nCalls |-> -1]

SessionIdle ==
    /\ requestData = NoRequestData
    /\ spc = "idle"
    /\ loopCount = 0
    /\ fetchedFiles = None
    /\ fetchedMainFilePath = None
    /\ result = NoResponse
    /\ callIdx = 0
    /\ functionResponses = <<>>
    /\ engineSent = 0
    /\ lastAct = Act("none", FALSE)
    /\ lastFetch = "none"
    /\ finalizeHandled = FALSE
    /\ errorReasons = <<>>
    /\ sendCalls = <<>>

\* the subscription callback has not run
ListenerIdle ==
    /\ running = TRUE
    /\ restarts = 0
    /\ inbox = <<>>
    /\ streamPos = 1
    /\ queryStartTime = 0
    /\ lastProcessedTimestamp = None
    /\ stateFile = None
    /\ deliveries = <<>>

\* no submitMessageToTopic call was made
NoSubmit == [called |-> FALSE, threw |-> FALSE, appended |-> FALSE]

\* no sendAuditResult / inscribeDataToTopic call is running
NoRun ==
    /\ opc = "idle"
    /\ caller = "none"
    /\ data = <<>>
    /\ pointerBytes = 0
    /\ newTopicId = None
    /\ chunkIdx = 0
    /\ inscribed = None
    /\ failedAt = None
    /\ submitted = NoSubmit
    /\ sendResult = "none"

StoreIdle ==
    /\ NoRun
    /\ ledger = <<>>
    /\ channel = 0
    /\ history = <<>>

\* the agent after listenForAuditRequests has subscribed: nothing delivered yet
Init ==
    /\ RunnerIdle
    /\ ClientReady
    /\ ListenerIdle
    /\ StoreIdle
    /\ nextTopic = 0
    /\ inboundLog = <<>>
    /\ topicLog = <<>>
    /\ delivered = 0
    /\ message = NoMessage
    /\ hpc = "idle"
    /\ requesterInboundTopicId = None
    /\ requesterAccountId = None
    /\ auditQueryString = None
    /\ connectionTopicId = None
    /\ outcome = "none"
    /\ hops = <<>>
    /\ dispatches = <<>>
    /\ SessionIdle

\* the process has just started: no client yet
InitClient ==
    /\ RunnerIdle
    /\ ClientUnset
    /\ ListenerIdle
    /\ StoreIdle
    /\ nextTopic = 0
    /\ inboundLog = <<>>
    /\ topicLog = <<>>
    /\ delivered = 0
    /\ message = NoMessage
    /\ hpc = "idle"
    /\ requesterInboundTopicId = None
    /\ requesterAccountId = None
    /\ auditQueryString = None
    /\ connectionTopicId = None
    /\ outcome = "none"
    /\ hops = <<>>
    /\ dispatches = <<>>
    /\ SessionIdle

\* the subscription with handleConnectionRequest, for any callback
Next ==
    \/ HCR_Receive /\ UNCHANGED <<listenerVars, storeVars, runnerVars, clientVars>>
    \/ HCR_CreateTopic /\ UNCHANGED <<listenerVars, storeVars, runnerVars, clientVars>>
    \/ HCR_Ack /\ UNCHANGED <<listenerVars, storeVars, runnerVars, clientVars>>
    \/ HCR_Extract /\ UNCHANGED <<listenerVars, storeVars, runnerVars, clientVars>>
    \/ HCR_Dispatch /\ UNCHANGED <<listenerVars, storeVars, runnerVars, clientVars>>
    \/ HCR_Return /\ UNCHANGED <<listenerVars, storeVars, runnerVars, clientVars>>

Spec == Init /\ [][Next]_vars

\* the envelopes whose request reaches the callback in InitSession
SessionQueries == {<<"x", " ", "0", ".", "0", ".", "9">>}

\* the agent at line 146 of handleConnectionRequest: the first envelope is a
\* connection request, its topic is created, its ack was attempted and the
\* callback processAuditRequest has just been called
InitSession ==
    /\ RunnerIdle
    /\ ClientReady
    /\ ListenerIdle
    /\ StoreIdle
    /\ nextTopic = 1
    /\ topicLog = <<<<>>>>
    /\ delivered = 1
    /\ \E q \in SessionQueries :
          /\ message = [sequenceNumber |-> 1,
                        contents |-> [kind |-> "json", p |-> "hcs-10",
                                      op |-> "connection_request",
                                      operator_id |-> Some(<<"t", "@", "a">>),
                                      m |-> Some(q)]]
          /\ auditQueryString = Some(q)
          /\ requestData = [user_query |-> q,
                            contract_id_from_user |-> Val(MatchContractId(q)),
                            reply_topic_id |-> Some(1),
                            requestor_account_id |-> <<"a">>]
    /\ hpc = "dispatch"
    /\ requesterInboundTopicId = Some(<<"t">>)
    /\ requesterAccountId = Some(<<"a">>)
    /\ connectionTopicId = Some(1)
    /\ outcome = "running"
    /\ hops = <<"create", "ack">>
    /\ dispatches = <<>>
    /\ \E acked \in BOOLEAN :
          inboundLog = IF acked
                       THEN <<buildHcs10Message("connection_created",
                                 [connection_topic_id |-> Some(1),
                                  connected_account_id |-> Some(<<"a">>),
                                  connection_id |-> Some(1), data |-> None])>>
                       ELSE <<>>
    /\ spc = "start"
    /\ loopCount = 0
    /\ fetchedFiles = None
    /\ fetchedMainFilePath = None
    /\ result = NoResponse
    /\ callIdx = 0
    /\ functionResponses = <<>>
    /\ engineSent = 0
    /\ lastAct = Act("none", FALSE)
    /\ lastFetch = "none"
    /\ finalizeHandled = FALSE
    /\ errorReasons = <<>>
    /\ sendCalls = <<>>

\* one run of processAuditRequest
NextSession ==
    \/ PAR_Start /\ UNCHANGED <<listenerVars, storeVars, runnerVars, clientVars>>
    \/ PAR_LoopTop /\ UNCHANGED <<listenerVars, storeVars, runnerVars, clientVars>>
    \/ PAR_HandleCall /\ UNCHANGED <<listenerVars, storeVars, runnerVars, clientVars>>
    \/ PAR_AfterCalls /\ UNCHANGED <<listenerVars, storeVars, runnerVars, clientVars>>
    \/ PAR_AfterLoop /\ UNCHANGED <<listenerVars, storeVars, runnerVars, clientVars>>

SpecSession == InitSession /\ [][NextSession]_vars

\* every awaited call of the session returns or throws
FairSpecSession == SpecSession /\ WF_vars(NextSession)

\* the messages processAuditRequest and reportFinalResult pass to reportFinalError
\* (lines 45, 51, 57, 72, 75, 81, 189 and 235)
ErrorMessages ==
    {"AI response was empty.", "AI response contained no candidates.",
     "AI processing error", "AI stopped before source code could be fetched.",
     "AI stopped unexpectedly before generating final report.",
     "AI tool call error: No function calls provided.",
     "Audit process timed out (max loops reached).",
     "Internal error: Final report object was missing."}

\* reportFinalError and reportFinalResult over their parameters: the connection
\* topic id can be absent, the contract id can be empty
InitReport ==
    /\ RunnerIdle
    /\ ClientReady
    /\ ListenerIdle
    /\ StoreIdle
    /\ nextTopic = 1
    /\ topicLog = <<<<>>>>
    /\ inboundLog = <<>>
    /\ delivered = 0
    /\ message = NoMessage
    /\ hpc = "idle"
    /\ requesterInboundTopicId = None
    /\ requesterAccountId = None
    /\ auditQueryString = None
    /\ connectionTopicId = None
    /\ outcome = "none"
    /\ hops = <<>>
    /\ dispatches = <<>>
    /\ \E topic \in {None, Some(1)}, contractId \in {<<>>, <<"0", ".", "0", ".", "9">>} :
          requestData = [NoRequestData EXCEPT !.reply_topic_id = topic,
                                              !.contract_id_from_user = contractId]
    /\ spc = "report"
    /\ loopCount = 0
    /\ fetchedFiles = None
    /\ fetchedMainFilePath = None
    /\ result = NoResponse
    /\ callIdx = 0
    /\ functionResponses = <<>>
    /\ engineSent = 0
    /\ lastAct = Act("none", FALSE)
    /\ lastFetch = "none"
    /\ finalizeHandled = FALSE
    /\ errorReasons = <<>>
    /\ sendCalls = <<>>

\* one call of reportFinalError, agent.js lines 192-230
REP_Error ==
    /\ spc = "report"
    /\ callIdx < MaxReports
    /\ callIdx' = callIdx + 1
    /\ lastAct' = Act("reportFinalError", FALSE)
    /\ \E errorMessage \in ErrorMessages, o \in SendOutcomes :
          /\ requestData.reply_topic_id = None => o = "sent"
          /\ reportFinalError(requestData.reply_topic_id, errorMessage, o)
    /\ UNCHANGED <<routerVars, requestData, spc, loopCount, fetchedFiles, fetchedMainFilePath,
                   result, functionResponses, engineSent, lastFetch, finalizeHandled>>

\* one call of reportFinalResult, agent.js lines 232-251; a pointer for an
\* undefined connection topic is never appended
REP_Result ==
    /\ spc = "report"
    /\ callIdx < MaxReports
    /\ callIdx' = callIdx + 1
    /\ lastAct' = Act("reportFinalResult", FALSE)
    /\ \E hasReport \in BOOLEAN, o \in SendOutcomes :
          /\ requestData.reply_topic_id = None => o # "sent"
          /\ reportFinalResult(requestData.reply_topic_id, hasReport, o)
    /\ UNCHANGED <<routerVars, requestData, spc, loopCount, fetchedFiles, fetchedMainFilePath,
                   result, functionResponses, engineSent, lastFetch, finalizeHandled>>

NextReport ==
    \/ REP_Error /\ UNCHANGED <<listenerVars, storeVars, runnerVars, clientVars>>
    \/ REP_Result /\ UNCHANGED <<listenerVars, storeVars, runnerVars, clientVars>>

SpecReport == InitReport /\ [][NextReport]_vars

TypeOK ==
    /\ nextTopic \in Nat
    /\ hpc \in {"idle", "create", "ack", "extract", "dispatch", "done"}
    /\ spc \in {"idle", "start", "loop", "calls", "afterLoop", "done", "threw", "report"}
    /\ loopCount \in Nat


-----------------------------------------------------------------------------
(* The subscription callback and the checkpoint (attemptSubscription,        *)
(* saveLastTimestamp, loadLastTimestamp).  The SDK does not wait for the      *)
(* promise of the async callback, so the callbacks of different envelopes     *)
(* interleave at their awaits; every action below is the code between two     *)
(* awaits of one callback.                                                    *)

\* Timestamp.toDate() keeps milliseconds: nanoseconds per millisecond
NanosPerMilli == 1000000

\* what an envelope on the inbound topic holds:
\*   "other"        JSON that is not an hcs-10 connection_request (line 94)
\*   "malformed"    contents that make JSON.parse throw (line 92)
\*   "request"      a connection_request whose m holds a contract id
\*   "requestNoId"  a connection_request whose m holds no contract id
EnvelopeKinds == {"other", "malformed", "request", "requestNoId"}

\* message.consensusTimestamp of the i-th envelope, in nanoseconds: strictly
\* increasing and not on a millisecond boundary; the first two envelopes fall
\* in different milliseconds, the second and the third in the same one
consensusTimestamp(i) == NanosPerMilli + 500000 + (i - 1) * 600000

\* line 164: timestamp.toDate().toISOString(), read back by line 32/37
toISOString(t) == (t \div NanosPerMilli) * NanosPerMilli

\* the first envelope the subscription delivers for setStartTime(t)
FirstFrom(t) ==
    IF \E i \in 1..MaxInbound : consensusTimestamp(i) >= t
    THEN CHOOSE i \in 1..MaxInbound :
            /\ consensusTimestamp(i) >= t
            /\ \A j \in 1..(i - 1) : consensusTimestamp(j) < t
    ELSE MaxInbound + 1

\* lines 154-157: the try of handleConnectionRequest catches every exception
HandlerCatchesNothing == FALSE
HandlerCatches == TRUE

\* line 146: the callback is awaited
CallbackNotAwaited == FALSE
CallbackAwaited == TRUE

\* line 162: lastProcessedTimestamp && timestamp.compare(lastProcessedTimestamp) <= 0
AlreadySavedNever(timestamp) == FALSE
AlreadySaved(timestamp) ==
    IsSome(lastProcessedTimestamp) /\ timestamp <= Val(lastProcessedTimestamp)

\* a run of the subscription callback for envelope e, at line 245
NewDelivery(e) ==
    [env |-> e,
     stale |-> IsSome(lastProcessedTimestamp)
                 /\ consensusTimestamp(e) <= Val(lastProcessedTimestamp),
     pc |-> "create", topic |-> FALSE, ack |-> FALSE, session |-> "none",
     exit |-> "none", returned |-> FALSE, save |-> "none"]

\* handleConnectionRequest returns through the given exit
Returned(d, exit) == [d EXCEPT !.pc = "returned", !.exit = exit, !.returned = TRUE]

\* lines 237-245 and 85-116: the callback starts and the handler runs to its
\* first await or to a return
L_Deliver ==
    /\ running
    /\ streamPos <= MaxInbound
    /\ Len(deliveries) < MaxDeliveries
    /\ LET d == NewDelivery(streamPos)
           k == inbox[streamPos]
       IN deliveries' = Append(deliveries,
            CASE k = "other" -> Returned(d, "skipped")
              [] k = "malformed" ->
                    IF HandlerCatches THEN Returned(d, "caught")
                    ELSE [d EXCEPT !.pc = "done", !.exit = "escaped"]
              [] OTHER -> d)
    /\ streamPos' = streamPos + 1
    /\ UNCHANGED <<running, restarts, inbox, queryStartTime, lastProcessedTimestamp,
                   stateFile>>

\* lines 116-121: createConnectionTopic returns a topic or null
L_CreateTopic(i) ==
    /\ running
    /\ deliveries[i].pc = "create"
    /\ \E ok \in BOOLEAN :
         deliveries' = [deliveries EXCEPT ![i] =
            IF ok THEN [@ EXCEPT !.pc = "ack", !.topic = TRUE]
            ELSE Returned(@, "createFailed")]
    /\ UNCHANGED <<running, restarts, inbox, streamPos, queryStartTime,
                   lastProcessedTimestamp, stateFile>>

\* lines 128-146: the ack submission returns (it never throws); a query with a
\* contract id starts the callback, one without submits the inline error
L_Ack(i) ==
    /\ running
    /\ deliveries[i].pc = "ack"
    /\ \E ledgerOk \in BOOLEAN :
         deliveries' = [deliveries EXCEPT ![i] =
            LET acked == [@ EXCEPT !.ack = submitMessageToTopic(ledgerOk).appended]
            IN IF inbox[@.env] = "requestNoId"
               THEN [acked EXCEPT !.pc = "inlineError"]
               ELSE IF CallbackAwaited
                    THEN [acked EXCEPT !.pc = "session", !.session = "running"]
                    ELSE Returned([acked EXCEPT !.session = "running"], "dispatched")]
    /\ UNCHANGED <<running, restarts, inbox, streamPos, queryStartTime,
                   lastProcessedTimestamp, stateFile>>

\* lines 141-142: the inline error submission returns, the handler returns
L_InlineError(i) ==
    /\ running
    /\ deliveries[i].pc = "inlineError"
    /\ deliveries' = [deliveries EXCEPT ![i] = Returned(@, "noContractId")]
    /\ UNCHANGED <<running, restarts, inbox, streamPos, queryStartTime,
                   lastProcessedTimestamp, stateFile>>

\* lines 146-157: processAuditRequest returns or throws; a throw is caught
L_SessionEnd(i) ==
    /\ running
    /\ deliveries[i].pc = "session"
    /\ \E threw \in BOOLEAN :
         deliveries' = [deliveries EXCEPT ![i] =
            IF ~threw THEN Returned([@ EXCEPT !.session = "ended"], "dispatched")
            ELSE IF HandlerCatches
                 THEN Returned([@ EXCEPT !.session = "threw"], "callbackThrew")
                 ELSE [@ EXCEPT !.session = "threw", !.pc = "done", !.exit = "escaped"]]
    /\ UNCHANGED <<running, restarts, inbox, streamPos, queryStartTime,
                   lastProcessedTimestamp, stateFile>>

\* lines 247 and 160-166: saveLastTimestamp up to its await of fs.writeFile
L_Save(i) ==
    /\ running
    /\ deliveries[i].pc = "returned"
    /\ LET timestamp == consensusTimestamp(deliveries[i].env)
       IN IF AlreadySaved(timestamp)
          THEN /\ deliveries' = [deliveries EXCEPT ![i] =
                      [@ EXCEPT !.pc = "done", !.save = "skipped"]]
               /\ UNCHANGED lastProcessedTimestamp
          ELSE /\ deliveries' = [deliveries EXCEPT ![i] =
                      [@ EXCEPT !.pc = "writing", !.save = "writing"]]
               /\ lastProcessedTimestamp' = Some(timestamp)
    /\ UNCHANGED <<running, restarts, inbox, streamPos, queryStartTime, stateFile>>

\* lines 166-171: fs.writeFile completes or fails (the failure is logged)
L_WriteDone(i) ==
    /\ running
    /\ deliveries[i].pc = "writing"
    /\ \E ok \in BOOLEAN :
         /\ deliveries' = [deliveries EXCEPT ![i] =
               [@ EXCEPT !.pc = "done", !.save = IF ok THEN "stored" ELSE "failed"]]
         /\ stateFile' = IF ok THEN Some(toISOString(consensusTimestamp(deliveries[i].env)))
                         ELSE stateFile
    /\ UNCHANGED <<running, restarts, inbox, streamPos, queryStartTime,
                   lastProcessedTimestamp>>

\* the transport reconnects and delivers again from an earlier envelope
\* (at-least-once delivery)
L_Reconnect ==
    /\ running
    /\ \E p \in FirstFrom(queryStartTime)..(streamPos - 1) : streamPos' = p
    /\ UNCHANGED <<running, restarts, inbox, queryStartTime, lastProcessedTimestamp,
                   stateFile, deliveries>>

\* the process stops: the callbacks in flight and the module variables are lost
L_Crash ==
    /\ running
    /\ restarts < MaxRestarts
    /\ running' = FALSE
    /\ restarts' = restarts + 1
    /\ lastProcessedTimestamp' = None
    /\ deliveries' = [i \in 1..Len(deliveries) |->
                        IF deliveries[i].pc = "done" THEN deliveries[i]
                        ELSE [NewDelivery(deliveries[i].env) EXCEPT
                                 !.pc = "lost", !.stale = deliveries[i].stale]]
    /\ UNCHANGED <<inbox, streamPos, queryStartTime, stateFile>>

\* lines 28-52: loadLastTimestamp reads what the state file holds; when the
\* file cannot be read or parsed the checkpoint is null (lines 44-50)
loadLastTimestamp(readOk) == IF readOk THEN stateFile ELSE None

\* lines 266-279 and 220-227: listenForAuditRequests in a new process; without
\* a checkpoint the subscription starts one minute before now
L_Restart ==
    /\ ~running
    /\ running' = TRUE
    /\ \E readOk \in BOOLEAN :
         LET loaded == loadLastTimestamp(readOk) IN
         /\ lastProcessedTimestamp' = loaded
         /\ \E t \in IF IsSome(loaded)
                     THEN {Val(loaded) + 1}
                     ELSE {0} \cup {consensusTimestamp(i) + 1 : i \in 1..MaxInbound} :
              /\ queryStartTime' = t
              /\ streamPos' = FirstFrom(t)
    /\ UNCHANGED <<restarts, inbox, stateFile, deliveries>>

\* the agent has subscribed for the first time (no state file); the inbound
\* topic holds MaxInbound envelopes
InitListener ==
    /\ RunnerIdle
    /\ ClientReady
    /\ nextTopic = 0
    /\ inboundLog = <<>>
    /\ topicLog = <<>>
    /\ delivered = 0
    /\ message = NoMessage
    /\ hpc = "idle"
    /\ requesterInboundTopicId = None
    /\ requesterAccountId = None
    /\ auditQueryString = None
    /\ connectionTopicId = None
    /\ outcome = "none"
    /\ hops = <<>>
    /\ dispatches = <<>>
    /\ SessionIdle
    /\ StoreIdle
    /\ running = TRUE
    /\ restarts = 0
    /\ inbox \in [1..MaxInbound -> EnvelopeKinds]
    /\ streamPos = 1
    /\ queryStartTime = 0
    /\ lastProcessedTimestamp = None
    /\ stateFile = None
    /\ deliveries = <<>>

NextListener ==
    \/ L_Deliver /\ UNCHANGED <<transportVars, routerVars, sessionVars, storeVars, runnerVars, clientVars>>
    \/ \E i \in 1..Len(deliveries) :
         L_CreateTopic(i) /\ UNCHANGED <<transportVars, routerVars, sessionVars, storeVars, runnerVars, clientVars>>
    \/ \E i \in 1..Len(deliveries) :
         L_Ack(i) /\ UNCHANGED <<transportVars, routerVars, sessionVars, storeVars, runnerVars, clientVars>>
    \/ \E i \in 1..Len(deliveries) :
         L_InlineError(i) /\ UNCHANGED <<transportVars, routerVars, sessionVars, storeVars, runnerVars, clientVars>>
    \/ \E i \in 1..Len(deliveries) :
         L_SessionEnd(i) /\ UNCHANGED <<transportVars, routerVars, sessionVars, storeVars, runnerVars, clientVars>>
    \/ \E i \in 1..Len(deliveries) :
         L_Save(i) /\ UNCHANGED <<transportVars, routerVars, sessionVars, storeVars, runnerVars, clientVars>>
    \/ \E i \in 1..Len(deliveries) :
         L_WriteDone(i) /\ UNCHANGED <<transportVars, routerVars, sessionVars, storeVars, runnerVars, clientVars>>
    \/ L_Reconnect /\ UNCHANGED <<transportVars, routerVars, sessionVars, storeVars, runnerVars, clientVars>>
    \/ L_Crash /\ UNCHANGED <<transportVars, routerVars, sessionVars, storeVars, runnerVars, clientVars>>
    \/ L_Restart /\ UNCHANGED <<transportVars, routerVars, sessionVars, storeVars, runnerVars, clientVars>>

SpecListener == InitListener /\ [][NextListener]_vars

-----------------------------------------------------------------------------
(* sendAuditResult, inscribeDataToTopic and submitMessageToTopic on the      *)
(* ledger.  A payload is a sequence of bytes; a message on a topic is        *)
(* [size, body, ref]: a frame carries its bytes, the pointer message carries *)
(* the topic its hcs://1/ reference names.                                   *)

\* the bytes of a payload of n bytes: the content tells the positions apart
Byte(i) == (i * 7 + 3) % 251
Payload(n) == [i \in 1..n |-> Byte(i)]

\* byte lengths of the JSON text sendAuditResult hands to inscribeDataToTopic
\* (never empty), and of the payload of a direct inscribeDataToTopic call
PayloadLengths == {1, 1024, 1025, 2049}
DirectLengths == {0}

\* byte lengths of the pointer message built at lines 295-298 (it grows with
\* contractId)
PointerSizes == {200, 1025}

Min(a, b) == IF a < b THEN a ELSE b

\* line 441: Math.ceil(dataBuffer.length / MAX_MESSAGE_SIZE_BYTES)
NumChunksFloor(length) == length \div MAX_MESSAGE_SIZE_BYTES
NumChunks(length) == (length + MAX_MESSAGE_SIZE_BYTES - 1) \div MAX_MESSAGE_SIZE_BYTES

\* line 445
ChunkStart(i) == i * MAX_MESSAGE_SIZE_BYTES

\* line 446: Math.min(start + MAX_MESSAGE_SIZE_BYTES, dataBuffer.length)
ChunkEndShort(start, length) == Min(start + MAX_MESSAGE_SIZE_BYTES - 1, length)
ChunkEnd(start, length) == Min(start + MAX_MESSAGE_SIZE_BYTES, length)

\* line 447: dataBuffer.subarray(start, end)
Subarray(buffer, start, end) == SubSeq(buffer, start + 1, end)

Frame(chunk) == [size |-> Len(chunk), body |-> chunk, ref |-> None]
PointerMessage(size, topic) == [size |-> size, body |-> <<>>, ref |-> Some(topic)]

\* lines 471-475: the catch of inscribeDataToTopic returns null
ReturnPartial(topic) == topic
ReturnOnError(topic) == None

\* line 372: messageBytes.byteLength > MAX_MESSAGE_SIZE_BYTES
ExceedsMaxSize(size) == size > MAX_MESSAGE_SIZE_BYTES

\* submitMessageToTopic for a message of the given size, lines 356-405: the
\* size error of line 373 is thrown inside the try and caught at line 398
SubmitMessage(size, ledgerOk) ==
    LET r == submitMessageToTopic(ledgerOk /\ ~ExceedsMaxSize(size))
    IN [called |-> TRUE, threw |-> r.threw, appended |-> r.appended]

\* lines 281-289 and 407-419: sendAuditResult calls inscribeDataToTopic with
\* the JSON text of the report, or inscribeDataToTopic is called directly
INS_Start ==
    /\ opc = "idle"
    /\ Len(history) < MaxRuns
    /\ \E c \in {"send", "direct"}, n \in PayloadLengths \cup DirectLengths :
         /\ c = "send" => n \in PayloadLengths
         /\ c = "direct" => n \in DirectLengths
         /\ caller' = c
         /\ data' = Payload(n)
    /\ opc' = "create"
    /\ UNCHANGED <<ledger, channel, pointerBytes, newTopicId, chunkIdx, inscribed,
                   failedAt, submitted, sendResult, history>>

\* lines 420-439: the data topic is created; an empty buffer returns it at once
INS_CreateTopic ==
    /\ opc = "create"
    /\ \E ok \in BOOLEAN :
         IF ok
         THEN /\ ledger' = Append(ledger, <<>>)
              /\ newTopicId' = Some(Len(ledger) + 1)
              /\ opc' = IF Len(data) = 0 THEN "inscribed" ELSE "chunks"
              /\ inscribed' = IF Len(data) = 0 THEN Some(Len(ledger) + 1) ELSE None
              /\ UNCHANGED failedAt
         ELSE /\ failedAt' = Some(0)
              /\ inscribed' = ReturnOnError(newTopicId)
              /\ opc' = "inscribed"
              /\ UNCHANGED <<ledger, newTopicId>>
    /\ UNCHANGED <<caller, data, channel, pointerBytes, chunkIdx, submitted, sendResult,
                   history>>

\* lines 444-469: one iteration of the chunk loop; after the last one the
\* topic id is returned
INS_SubmitChunk ==
    /\ opc = "chunks"
    /\ chunkIdx < NumChunks(Len(data))
    /\ \E ok \in BOOLEAN :
         LET start == ChunkStart(chunkIdx)
             end == ChunkEnd(start, Len(data))
             chunk == Subarray(data, start, end)
             t == Val(newTopicId)
         IN IF ok
            THEN /\ ledger' = [ledger EXCEPT ![t] = Append(@, Frame(chunk))]
                 /\ chunkIdx' = chunkIdx + 1
                 /\ IF chunkIdx + 1 < NumChunks(Len(data))
                    THEN UNCHANGED <<opc, inscribed>>
                    ELSE opc' = "inscribed" /\ inscribed' = newTopicId
                 /\ UNCHANGED failedAt
            ELSE /\ failedAt' = Some(chunkIdx + 1)
                 /\ inscribed' = ReturnOnError(newTopicId)
                 /\ opc' = "inscribed"
                 /\ UNCHANGED <<ledger, chunkIdx>>
    /\ UNCHANGED <<caller, data, channel, pointerBytes, newTopicId, submitted, sendResult,
                   history>>

\* lines 289-301: a null topic id makes sendAuditResult throw (line 291 and
\* the rethrow of line 308); otherwise the pointer message is built
SAR_AfterInscribe ==
    /\ opc = "inscribed"
    /\ caller = "send"
    /\ IF IsSome(inscribed)
       THEN /\ opc' = "pointer"
            /\ \E size \in PointerSizes : pointerBytes' = size
            /\ UNCHANGED sendResult
       ELSE /\ opc' = "returned"
            /\ sendResult' = "threw"
            /\ UNCHANGED pointerBytes
    /\ UNCHANGED <<ledger, caller, data, channel, newTopicId, chunkIdx,
                   inscribed, failedAt, submitted, history>>

\* lines 302-304: the pointer is submitted and the value submitMessageToTopic
\* returns is not looked at
SAR_Pointer ==
    /\ opc = "pointer"
    /\ \E ledgerOk \in BOOLEAN :
         LET r == SubmitMessage(pointerBytes, ledgerOk)
         IN /\ submitted' = r
            /\ ledger' = IF r.appended
                         THEN [ledger EXCEPT ![channel] =
                                 Append(@, PointerMessage(pointerBytes, Val(inscribed)))]
                         ELSE ledger
            /\ sendResult' = IF r.threw THEN "threw" ELSE "ok"
    /\ opc' = "returned"
    /\ UNCHANGED <<caller, data, channel, pointerBytes, newTopicId, chunkIdx, inscribed,
                   failedAt, history>>

\* the call returns to its caller
RunRecord ==
    [caller |-> caller, length |-> Len(data), created |-> newTopicId,
     inscribed |-> inscribed, failedAt |-> failedAt, pointerBytes |-> pointerBytes,
     submitted |-> submitted, sendResult |-> sendResult]

STORE_Return ==
    /\ \/ opc = "returned"
       \/ opc = "inscribed" /\ caller = "direct"
    /\ history' = Append(history, RunRecord)
    /\ opc' = "idle"
    /\ caller' = "none"
    /\ data' = <<>>
    /\ pointerBytes' = 0
    /\ newTopicId' = None
    /\ chunkIdx' = 0
    /\ inscribed' = None
    /\ failedAt' = None
    /\ submitted' = NoSubmit
    /\ sendResult' = "none"
    /\ UNCHANGED <<ledger, channel>>

\* the agent holds a connection topic (topic 1) and no call is running
InitStore ==
    /\ RunnerIdle
    /\ ClientReady
    /\ nextTopic = 0
    /\ inboundLog = <<>>
    /\ topicLog = <<>>
    /\ delivered = 0
    /\ message = NoMessage
    /\ hpc = "idle"
    /\ requesterInboundTopicId = None
    /\ requesterAccountId = None
    /\ auditQueryString = None
    /\ connectionTopicId = None
    /\ outcome = "none"
    /\ hops = <<>>
    /\ dispatches = <<>>
    /\ SessionIdle
    /\ ListenerIdle
    /\ NoRun
    /\ ledger = << <<>> >>
    /\ channel = 1
    /\ history = <<>>

NextStore ==
    \/ INS_Start /\ UNCHANGED <<transportVars, routerVars, sessionVars, listenerVars, runnerVars, clientVars>>
    \/ INS_CreateTopic /\ UNCHANGED <<transportVars, routerVars, sessionVars, listenerVars, runnerVars, clientVars>>
    \/ INS_SubmitChunk /\ UNCHANGED <<transportVars, routerVars, sessionVars, listenerVars, runnerVars, clientVars>>
    \/ SAR_AfterInscribe /\ UNCHANGED <<transportVars, routerVars, sessionVars, listenerVars, runnerVars, clientVars>>
    \/ SAR_Pointer /\ UNCHANGED <<transportVars, routerVars, sessionVars, listenerVars, runnerVars, clientVars>>
    \/ STORE_Return /\ UNCHANGED <<transportVars, routerVars, sessionVars, listenerVars, runnerVars, clientVars>>

SpecStore == InitStore /\ [][NextStore]_vars

-----------------------------------------------------------------------------
(* The steps of a runner invocation *)

\* an invocation is over: its record is kept and the runner is free again
Exit(how, attempts, dir, cont) ==
    /\ invocations' = Append(invocations,
          [tool |-> tool', exit |-> how, cleanup |-> attempts,
           hostProjectDir |-> dir, container |-> cont])
    /\ rpc' = "idle"
    /\ hostProjectDir' = "absent"
    /\ container' = "null"
    /\ pending' = "none"
    /\ cleanup' = NoCleanup

\* runAuditToolInDocker, lines 121-131: the argument checks, ensureTempDirExists
\* and the names of the workspace
RUN_Call ==
    /\ rpc = "idle"
    /\ Len(invocations) < MaxInvocations
    /\ tool' = "runAuditToolInDocker"
    /\ \E args \in {"noFiles", "noMainFilePath", "given"}, tempDirOk \in BOOLEAN :
          IF args # "given"
          THEN tempDirOk /\ Exit("failure", NoCleanup, "absent", "null")
          ELSE IF ~tempDirOk
          THEN Exit("exception", NoCleanup, "absent", "null")
          ELSE /\ rpc' = "try"
               /\ UNCHANGED <<hostProjectDir, container, pending, cleanup, invocations>>

\* runForgeTestInDocker, lines 311-327: the argument checks, then line 323
\* reads the undeclared identifier originalContractFileName (ReferenceError)
RUN_CallForge ==
    /\ rpc = "idle"
    /\ Len(invocations) < MaxInvocations
    /\ tool' = "runForgeTestInDocker"
    /\ \E args \in {"noTSol", "noFiles", "given"} :
          IF args # "given"
          THEN Exit("failure", NoCleanup, "absent", "null")
          ELSE Exit("exception", NoCleanup, "absent", "null")

\* lines 132-154: the main file is looked up, then the files are written
\* under hostProjectDir (mkdir, writeFile)
RUN_Prepare ==
    /\ rpc = "try"
    /\ \E step \in {"noMainFile", "mkdirFailed", "writeFailed", "written"} :
          /\ hostProjectDir' =
                IF step \in {"writeFailed", "written"} THEN "present" ELSE hostProjectDir
          /\ rpc' = IF step = "written" THEN "create" ELSE "catch"
    /\ UNCHANGED <<tool, container, pending, cleanup, invocations>>

\* lines 156-213: the command, docker.createContainer and container.start
RUN_CreateContainer ==
    /\ rpc = "create"
    /\ \E step \in {"createFailed", "startFailed", "started"} :
          /\ container' = IF step = "createFailed" THEN "null" ELSE "created"
          /\ rpc' = IF step = "started" THEN "execute" ELSE "catch"
    /\ UNCHANGED <<tool, hostProjectDir, pending, cleanup, invocations>>

\* lines 214-284: the logs and the exit status of the container, the result
RUN_Execute ==
    /\ rpc = "execute"
    /\ \E step \in {"streamFailed", "success", "failure"} :
          IF step = "streamFailed"
          THEN rpc' = "catch" /\ pending' = pending
          ELSE rpc' = "finally" /\ pending' = step
    /\ UNCHANGED <<tool, hostProjectDir, container, cleanup, invocations>>

\* lines 286-292: the catch returns a failure result; reading error.message of
\* a rejection value that has none throws out of the catch
RUN_Catch ==
    /\ rpc = "catch"
    /\ \E how \in {"failure", "exception"} : pending' = how
    /\ rpc' = "finally"
    /\ UNCHANGED <<tool, hostProjectDir, container, cleanup, invocations>>

\* the try/catch of lines 295-300 around container.remove
RemoveErrorCaughtNever(removed) == removed
RemoveErrorCaught(removed) == TRUE

\* lines 293-301: the finally block removes the container if there is one
RUN_RemoveContainer ==
    /\ rpc = "finally"
    /\ tool' = tool
    /\ IF container = "null"
       THEN /\ rpc' = "rmDir"
            /\ UNCHANGED <<hostProjectDir, container, pending, cleanup, invocations>>
       ELSE \E removed \in BOOLEAN :
              LET attempts == Append(cleanup, [op |-> "container.remove", ok |-> removed])
                  cont == IF removed THEN "removed" ELSE container
              IN IF RemoveErrorCaught(removed)
                 THEN /\ rpc' = "rmDir"
                      /\ cleanup' = attempts
                      /\ container' = cont
                      /\ UNCHANGED <<hostProjectDir, pending, invocations>>
                 ELSE Exit("exception", attempts, hostProjectDir, cont)

\* lines 303-306: the finally block removes hostProjectDir, then the function
\* completes the way its try or catch did
RUN_RemoveDir ==
    /\ rpc = "rmDir"
    /\ tool' = tool
    /\ \E removed \in BOOLEAN :
          Exit(pending, Append(cleanup, [op |-> "fs.rm", ok |-> removed]),
               IF removed /\ hostProjectDir = "present" THEN "removed" ELSE hostProjectDir,
               container)

NextRunner ==
    \/ RUN_Call /\ UNCHANGED <<transportVars, routerVars, sessionVars, listenerVars, storeVars, clientVars>>
    \/ RUN_CallForge /\ UNCHANGED <<transportVars, routerVars, sessionVars, listenerVars, storeVars, clientVars>>
    \/ RUN_Prepare /\ UNCHANGED <<transportVars, routerVars, sessionVars, listenerVars, storeVars, clientVars>>
    \/ RUN_CreateContainer /\ UNCHANGED <<transportVars, routerVars, sessionVars, listenerVars, storeVars, clientVars>>
    \/ RUN_Execute /\ UNCHANGED <<transportVars, routerVars, sessionVars, listenerVars, storeVars, clientVars>>
    \/ RUN_Catch /\ UNCHANGED <<transportVars, routerVars, sessionVars, listenerVars, storeVars, clientVars>>
    \/ RUN_RemoveContainer /\ UNCHANGED <<transportVars, routerVars, sessionVars, listenerVars, storeVars, clientVars>>
    \/ RUN_RemoveDir /\ UNCHANGED <<transportVars, routerVars, sessionVars, listenerVars, storeVars, clientVars>>

\* the runners called one after the other, from the state of a started agent
SpecRunner == Init /\ [][NextRunner]_vars

-----------------------------------------------------------------------------
(* The steps of initializeHederaClient *)

\* line 179 for a call with the default attempt = 1; the first call is the
\* one of startAgent (agent.js line 256)
INIT_Call ==
    /\ cpc = "idle"
    /\ Len(initReturns) < MaxInitCalls
    /\ \E c \in ClientCallers :
          /\ (initReturns = <<>>) => c = "startAgent"
          /\ initCaller' = c
          /\ IF IsSome(hederaClient)
             THEN /\ initReturns' = Append(initReturns, [caller |-> c, client |-> Val(hederaClient)])
                  /\ UNCHANGED <<cpc, attempt>>
             ELSE /\ cpc' = "try"
                  /\ attempt' = 1
                  /\ initReturns' = initReturns
    /\ UNCHANGED <<hederaClient, attemptsMade, sleeps>>

\* lines 181-200: one attempt; on failure the back-off is computed, or the
\* process exits
INIT_Try ==
    /\ cpc = "try"
    /\ attemptsMade' = attemptsMade + 1
    /\ \E created \in BOOLEAN :
          IF created
          THEN /\ hederaClient' = Some(attemptsMade + 1)
               /\ initReturns' = Append(initReturns,
                                     [caller |-> initCaller, client |-> attemptsMade + 1])
               /\ cpc' = "idle"
               /\ sleeps' = sleeps
          ELSE /\ UNCHANGED <<hederaClient, initReturns>>
               /\ IF CanRetry(attempt)
                  THEN cpc' = "sleep" /\ sleeps' = Append(sleeps, backoff(attempt))
                  ELSE cpc' = "exited" /\ sleeps' = sleeps
    /\ UNCHANGED <<attempt, initCaller>>

\* lines 197-198 and 179: the sleep is over, the function calls itself with
\* attempt + 1
INIT_Retry ==
    /\ cpc = "sleep"
    /\ attempt' = attempt + 1
    /\ IF IsSome(hederaClient)
       THEN /\ initReturns' = Append(initReturns,
                                  [caller |-> initCaller, client |-> Val(hederaClient)])
            /\ cpc' = "idle"
       ELSE /\ cpc' = "try"
            /\ initReturns' = initReturns
    /\ UNCHANGED <<hederaClient, initCaller, attemptsMade, sleeps>>

NextClient ==
    \/ INIT_Call /\ UNCHANGED <<transportVars, routerVars, sessionVars, listenerVars, storeVars, runnerVars>>
    \/ INIT_Try /\ UNCHANGED <<transportVars, routerVars, sessionVars, listenerVars, storeVars, runnerVars>>
    \/ INIT_Retry /\ UNCHANGED <<transportVars, routerVars, sessionVars, listenerVars, storeVars, runnerVars>>

SpecClient == InitClient /\ [][NextClient]_vars

-----------------------------------------------------------------------------
(* Properties of processAuditRequest, checked under SpecSession *)

Last(seq) == seq[Len(seq)]
SessionEnded == spc \in {"done", "threw"}
IsRunner(name) == name \in {"runAuditToolInDocker", "executeSolidityTest"}

Rank ==
    CASE spc = "start" -> MAX_LOOPS * (MaxCalls + 2) + 3
      [] spc = "loop" -> (MAX_LOOPS - loopCount) * (MaxCalls + 2) + 2
      [] spc = "calls" -> (MAX_LOOPS - loopCount) * (MaxCalls + 2) + 3
                              + (result.nCalls - callIdx)
      [] spc = "afterLoop" -> 1
      [] OTHER -> 0

\* C2: whatever the engine replies, processAuditRequest stops after at most
\* MAX_LOOPS iterations: loopCount never exceeds MAX_LOOPS and every step of
\* the session decreases a natural-number variant.
C2_BoundedLoop ==
    [][/\ loopCount' <= MAX_LOOPS
       /\ Rank' >= 0
       /\ Rank' < Rank]_vars

\* the session ended after the last allowed iteration
C2_Witness == spc = "done" /\ loopCount = MAX_LOOPS

\* C3: once a finalizeAuditReport call has been handled the session is over:
\* no message goes to the engine and no function call is handled any more,
\* whatever the loop count is.
C3_FinalizeEndsSession ==
    [][/\ finalizeHandled' => SessionEnded'
       /\ finalizeHandled => (engineSent' = engineSent /\ callIdx' = callIdx)]_vars

\* finalize handled before the last iteration, with a call of the turn left over
C3_Witness ==
    /\ finalizeHandled
    /\ spc = "done"
    /\ loopCount < MAX_LOOPS
    /\ callIdx < result.nCalls

MaxLoopsReason == "Audit process timed out (max loops reached)."

\* C4: when the results of MAX_LOOPS iterations have gone to the engine (every
\* iteration produced results of non-finalize calls) the session leaves the
\* loop and ends with reportFinalError called with the "max loops reached"
\* reason for the reply topic of the session.
C4_MaxLoopsReported ==
    (engineSent = MAX_LOOPS + 1 /\ spc # "threw") =>
        /\ loopCount = MAX_LOOPS
        /\ spc \in {"loop", "afterLoop", "done"}
        /\ spc = "done" =>
              /\ errorReasons # <<>>
              /\ Last(errorReasons) = MaxLoopsReason
              /\ sendCalls # <<>>
              /\ Last(sendCalls).status = "error"
              /\ Some(Last(sendCalls).topic) = requestData.reply_topic_id

C4_Witness == engineSent = MAX_LOOPS + 1 /\ spc = "done"


-----------------------------------------------------------------------------
(* Properties of handleConnectionRequest, checked under Spec *)

\* the envelope being handled carries a JSON payload that is no hcs-10
\* connection_request
NonRequest(msg) ==
    /\ msg.contents.kind = "json"
    /\ msg.contents.p # "hcs-10" \/ msg.contents.op # "connection_request"

\* the envelope being handled carries an hcs-10 connection_request
IsRequest(msg) ==
    /\ msg.contents.kind = "json"
    /\ msg.contents.p = "hcs-10"
    /\ msg.contents.op = "connection_request"

\* the callback has been called for the envelope with sequence number n
Dispatched(n) == \E i \in 1..Len(dispatches) : dispatches[i].sequenceNumber = n

\* the connection_created messages on the inbound topic that answer envelope n
AcksFor(n) ==
    {j \in 1..Len(inboundLog) :
        /\ inboundLog[j].op = "connection_created"
        /\ inboundLog[j].connection_id = Some(n)}

Count(seq, x) == Cardinality({i \in 1..Len(seq) : seq[i] = x})

\* C5: an envelope whose payload has p # "hcs-10" or op # "connection_request"
\* makes the handler return at once (skipped): the step that receives it
\* creates no topic, appends no message and does not call the callback.
C5_NonRequestSkipped ==
    [][NonRequest(message') =>
          /\ hpc' = "done"
          /\ outcome' = "skipped"
          /\ hops' = <<>>
          /\ nextTopic' = nextTopic
          /\ inboundLog' = inboundLog
          /\ topicLog' = topicLog
          /\ dispatches' = dispatches]_vars

\* the agent's own kind of message, received after an earlier request created
\* a topic
C5_Witness ==
    /\ hpc = "done"
    /\ outcome = "skipped"
    /\ message.contents.p = "hcs-10"
    /\ message.contents.op = "connection_created"
    /\ Truthy(message.contents.m)
    /\ nextTopic = 1

\* the operator_id has the wire form <topic>@<account>: one '@'
OneAt(s) == Cardinality({i \in 1..Len(s) : s[i] = "@"}) = 1

\* operator_id parses into exactly two non-empty components around one '@'
WellFormedOperatorId(o) ==
    /\ Truthy(o)
    /\ OneAt(Val(o))
    /\ Val(o)[1] # "@"
    /\ Val(o)[Len(Val(o))] # "@"

\* C6: every well-formed request handed to the callback has, at that moment,
\* exactly one topic created for it and exactly one connection_created ack
\* appended to the inbound topic, and its reply topic is the reply topic of no
\* other request.
C6_OneChannelOneAckBeforeDispatch ==
    (hpc = "done" /\ Dispatched(message.sequenceNumber)
        /\ WellFormedOperatorId(message.contents.operator_id)) =>
        /\ Count(hops, "create") = 1
        /\ Cardinality(AcksFor(message.sequenceNumber)) = 1
        /\ \A i \in 1..Len(dispatches) : \A k \in 1..Len(dispatches) :
              k # i => dispatches[k].data.reply_topic_id # dispatches[i].data.reply_topic_id

\* the characters of s after its first '@'
AfterFirstAt(s) ==
    LET i == CHOOSE i \in 1..Len(s) : s[i] = "@" /\ \A j \in 1..(i - 1) : s[j] # "@"
    IN SubSeq(s, i + 1, Len(s))

\* C7: when a request has been handed to the callback, every ack published for
\* it names the topic created for it as connection_topic_id and the sequence
\* number of the envelope as connection_id, its connected_account_id is the
\* part of operator_id after the '@', and the reply_topic_id given to the
\* callback is that same topic.  The account conjunct fails for an operator_id
\* with a second '@' (accepted by line 102), where split('@')[1] is only the
\* component between the first two '@'.
C7_AckAndReplyTopic ==
    (hpc = "done" /\ Dispatched(message.sequenceNumber)) =>
        LET n == message.sequenceNumber
            opid == Val(message.contents.operator_id)
            d == dispatches[Len(dispatches)]
        IN /\ d.sequenceNumber = n
           /\ d.data.reply_topic_id = Some(nextTopic)
           /\ \A j \in AcksFor(n) :
                 /\ inboundLog[j].connection_topic_id = Some(nextTopic)
                 /\ inboundLog[j].connected_account_id = Some(AfterFirstAt(opid))
           /\ \A j \in 1..Len(inboundLog) :
                 (/\ inboundLog[j].op = "connection_created"
                  /\ inboundLog[j].connection_topic_id = Some(nextTopic)) =>
                     inboundLog[j].connection_id = Some(n)

\* C8: when the ack of a (well-formed) request was submitted and is not on the
\* inbound topic, the handler ends failed and the callback is not called.
C8_AckFailureStops ==
    (hpc \in {"extract", "dispatch", "done"}
        /\ WellFormedOperatorId(message.contents.operator_id)
        /\ Count(hops, "ack") > 0
        /\ AcksFor(message.sequenceNumber) = {}) =>
        /\ ~Dispatched(message.sequenceNumber)
        /\ hpc = "done" => outcome = "failed"

\* C9: a connection_request whose operator_id does not parse into exactly two
\* non-empty components is skipped: no topic is created, no message is
\* appended and the callback is not called.
C9_MalformedOperatorIdSkipped ==
    (hpc # "idle" /\ IsRequest(message)
        /\ ~WellFormedOperatorId(message.contents.operator_id)) =>
        /\ hpc = "done"
        /\ outcome = "skipped"
        /\ hops = <<>>
        /\ ~Dispatched(message.sequenceNumber)

\* s contains "0.0." and digits as a token of its own
HasContractIdToken(s) ==
    \E k \in 1..Len(s) : \E e \in 1..Len(s) :
        /\ IdShapeAt(s, k, e)
        /\ WordBoundary(s, k - 1)
        /\ WordBoundary(s, e)

\* C10: an acknowledged request whose query contains no 0.0.<digits> token ends
\* failed after exactly one attempt to send the inline error on the topic
\* created for it: the callback is not called, and that topic holds the inline
\* error when the send succeeded and nothing when it failed.
C10_NoContractIdInlineError ==
    (hpc = "done" /\ AcksFor(message.sequenceNumber) # {}
        /\ ~HasContractIdToken(Val(message.contents.m))) =>
        /\ outcome = "failed"
        /\ hops = <<"create", "ack", "inlineError">>
        /\ ~Dispatched(message.sequenceNumber)
        /\ connectionTopicId = Some(nextTopic)
        /\ topicLog[nextTopic] \in {<<>>, <<errorPayload>>}

\* the inline error was appended for a query whose id is glued to a word
C10_Witness ==
    /\ hpc = "done"
    /\ AcksFor(message.sequenceNumber) # {}
    /\ message.contents.m = Some(<<"x", "0", ".", "0", ".", "9">>)
    /\ topicLog[nextTopic] = <<errorPayload>>

-----------------------------------------------------------------------------
(* Properties of the subscription callback and the checkpoint, checked under *)
(* SpecListener *)

Deliveries == 1..Len(deliveries)
TimestampOf(i) == consensusTimestamp(deliveries[i].env)
AtOrBelowCheckpoint(t) ==
    IsSome(lastProcessedTimestamp) /\ t <= Val(lastProcessedTimestamp)

\* C11: while the process runs, lastProcessedTimestamp only changes to a
\* strictly greater timestamp, and a saveLastTimestamp call with a timestamp
\* less than or equal to the checkpoint changes neither the checkpoint nor the
\* state file and starts no write.
C11_CheckpointOnlyAdvances ==
    [][/\ (running /\ running' /\ IsSome(lastProcessedTimestamp)
              /\ lastProcessedTimestamp' # lastProcessedTimestamp) =>
            /\ IsSome(lastProcessedTimestamp')
            /\ Val(lastProcessedTimestamp') > Val(lastProcessedTimestamp)
       /\ \A i \in Deliveries :
            (/\ deliveries[i].save = "none"
             /\ deliveries'[i].save # "none"
             /\ AtOrBelowCheckpoint(TimestampOf(i))) =>
                /\ lastProcessedTimestamp' = lastProcessedTimestamp
                /\ stateFile' = stateFile
                /\ deliveries'[i].save = "skipped"
                /\ deliveries'[i].pc = "done"]_vars

\* the handler of an earlier envelope finished after a later envelope was saved
C11_Witness ==
    \E i \in Deliveries :
        /\ deliveries[i].save = "skipped"
        /\ IsSome(lastProcessedTimestamp)
        /\ TimestampOf(i) < Val(lastProcessedTimestamp)
        /\ stateFile = Some(toISOString(Val(lastProcessedTimestamp)))

\* C12: a callback run for an envelope whose timestamp was at or below the
\* checkpoint when it was delivered creates no topic, publishes no ack and
\* starts no session.
C12_ReplayHasNoSideEffect ==
    \A i \in Deliveries :
        deliveries[i].stale =>
            /\ ~deliveries[i].topic
            /\ ~deliveries[i].ack
            /\ deliveries[i].session = "none"

\* C13: saveLastTimestamp has been called for a delivery only if
\* handleConnectionRequest has returned for it and the session it started, if
\* any, has ended.
C13_SaveAfterHandlerReturned ==
    \A i \in Deliveries :
        deliveries[i].save # "none" =>
            /\ deliveries[i].returned
            /\ deliveries[i].session \in {"none", "ended", "threw"}
            /\ deliveries[i].pc \in {"writing", "done"}

\* a dispatched request whose session ended and whose timestamp is stored
C13_Witness ==
    \E i \in Deliveries :
        /\ deliveries[i].save = "stored"
        /\ deliveries[i].session = "ended"
        /\ deliveries[i].ack

\* C14: every envelope whose timestamp is at or below the checkpoint has a
\* callback run whose handler returned.
C14_CheckpointCoversOnlyHandled ==
    (running /\ IsSome(lastProcessedTimestamp)) =>
        \A e \in 1..MaxInbound :
            consensusTimestamp(e) <= Val(lastProcessedTimestamp) =>
                \E i \in Deliveries : deliveries[i].env = e /\ deliveries[i].returned

\* C15: no exception leaves handleConnectionRequest, a callback run that has
\* finished has called saveLastTimestamp, and a handler that has returned
\* without the call made yet is at line 247.
C15_EveryExitSaves ==
    \A i \in Deliveries :
        /\ deliveries[i].exit # "escaped"
        /\ deliveries[i].pc = "done" => deliveries[i].save # "none"
        /\ (deliveries[i].returned /\ deliveries[i].save = "none") =>
               deliveries[i].pc = "returned"

\* the callback threw inside the handler and the timestamp was still saved
C15_Witness ==
    \E i, j \in Deliveries :
        /\ deliveries[i].exit = "callbackThrew"
        /\ deliveries[i].save = "stored"
        /\ deliveries[j].exit = "caught"
        /\ deliveries[j].save # "none"

\* C28: the timestamp held by the state file never goes back to a value
\* earlier than one it held before, whatever the order in which the file
\* writes of concurrently finishing callbacks complete.
C28_StateFileNeverRegresses ==
    [][(IsSome(stateFile) /\ IsSome(stateFile')) => Val(stateFile') >= Val(stateFile)]_vars

-----------------------------------------------------------------------------
(* Properties of sendAuditResult, inscribeDataToTopic and                    *)
(* submitMessageToTopic, checked under SpecStore *)

\* what a reader of a data topic gets: the frames in sequence-number order
RECURSIVE Concat(_)
Concat(frames) ==
    IF frames = <<>> THEN <<>> ELSE Head(frames).body \o Concat(Tail(frames))
Resolve(topic) == Concat(ledger[topic])

CeilDiv(a, b) == CHOOSE k \in 0..a : k * b >= a /\ (k = 0 \/ (k - 1) * b < a)

\* the calls whose inscribeDataToTopic has returned: the finished ones and the
\* running one
FinishedRuns == {history[i] : i \in 1..Len(history)}
InscribeReturned ==
    FinishedRuns \cup (IF opc \in {"inscribed", "pointer", "returned"}
                       THEN {RunRecord} ELSE {})
SendReturned ==
    {r \in FinishedRuns : r.caller = "send"}
        \cup (IF opc = "returned" THEN {RunRecord} ELSE {})
AllMessages ==
    UNION {{ledger[t][k] : k \in 1..Len(ledger[t])} : t \in 1..Len(ledger)}

\* C16: for every payload b, the empty one included, the frames of the topic
\* that inscribeDataToTopic(b) returned, concatenated in sequence-number
\* order, are b.
C16_RoundTrip ==
    \A r \in InscribeReturned :
        IsSome(r.inscribed) => Resolve(Val(r.inscribed)) = Payload(r.length)

\* a payload of three frames and the empty payload have both been inscribed
C16_Witness ==
    \E r, e \in InscribeReturned :
        /\ IsSome(r.inscribed) /\ r.length = 2049
        /\ Len(ledger[Val(r.inscribed)]) = 3
        /\ IsSome(e.inscribed) /\ e.length = 0

\* C17: a successful inscribeDataToTopic(b) has appended ceil(len(b)/1024)
\* frames to the topic it created, frame i holding
\* b[i*1024 : min((i+1)*1024, len(b))], each of 1..1024 bytes; for the empty
\* payload it appended none and still returns the new topic; while the loop
\* runs the frames are on the topic in index order.
SliceOf(b, i) ==
    SubSeq(b, i * MAX_MESSAGE_SIZE_BYTES + 1,
           Min((i + 1) * MAX_MESSAGE_SIZE_BYTES, Len(b)))
FramesAreSlices(topic, b) ==
    \A i \in 0..(Len(ledger[topic]) - 1) :
        /\ ledger[topic][i + 1].body = SliceOf(b, i)
        /\ ledger[topic][i + 1].size = Len(ledger[topic][i + 1].body)
        /\ ledger[topic][i + 1].size \in 1..MAX_MESSAGE_SIZE_BYTES
        /\ ledger[topic][i + 1].ref = None
C17_FramesOfPayload ==
    /\ \A r \in InscribeReturned :
          IsSome(r.inscribed) =>
              /\ r.created = r.inscribed
              /\ Val(r.inscribed) # channel
              /\ Len(ledger[Val(r.inscribed)]) = CeilDiv(r.length, MAX_MESSAGE_SIZE_BYTES)
              /\ FramesAreSlices(Val(r.inscribed), Payload(r.length))
    /\ \A i, j \in 1..Len(history) :
          (i # j /\ IsSome(history[i].created)) => history[i].created # history[j].created
    /\ opc = "chunks" =>
          /\ Len(ledger[Val(newTopicId)]) = chunkIdx
          /\ FramesAreSlices(Val(newTopicId), data)

\* a payload of 1025 bytes is on its topic as a full frame and a frame of one
\* byte, and the empty payload was inscribed on a topic without frames
C17_Witness ==
    \E r, e \in InscribeReturned :
        /\ IsSome(r.inscribed) /\ r.length = 1025
        /\ Len(ledger[Val(r.inscribed)]) = 2
        /\ ledger[Val(r.inscribed)][2].size = 1
        /\ IsSome(e.inscribed) /\ e.length = 0
        /\ ledger[Val(e.inscribed)] = <<>>

\* C18: when the topic creation or a chunk submission of inscribeDataToTopic
\* failed, no later chunk was submitted, no topic id is returned,
\* sendAuditResult throws without submitting a pointer, and no message on any
\* topic refers to the partly written topic.
C18_FailedInscribeAborts ==
    /\ IsSome(failedAt) => opc \in {"inscribed", "returned"}
    /\ \A r \in InscribeReturned :
          IsSome(r.failedAt) =>
              /\ r.inscribed = None
              /\ IsSome(r.created) <=> Val(r.failedAt) > 0
              /\ IsSome(r.created) =>
                    /\ Len(ledger[Val(r.created)]) = Val(r.failedAt) - 1
                    /\ \A m \in AllMessages : m.ref # r.created
              /\ ~r.submitted.called
              /\ r.sendResult # "ok"
              /\ r \in SendReturned => r.sendResult = "threw"

\* the second of three chunks failed inside sendAuditResult
C18_Witness ==
    \E r \in SendReturned :
        /\ r.failedAt = Some(2)
        /\ r.length = 2049
        /\ r.sendResult = "threw"
        /\ Len(ledger[Val(r.created)]) = 1

\* C19: a submitMessageToTopic call with a message of more than 1024 bytes
\* raises an error to its caller and appends nothing, and no message of more
\* than 1024 bytes is on any topic.
C19_OversizeSubmitFails ==
    /\ \A r \in SendReturned :
          (r.submitted.called /\ r.pointerBytes > MAX_MESSAGE_SIZE_BYTES) =>
              /\ r.submitted.threw
              /\ ~r.submitted.appended
    /\ \A m \in AllMessages : m.size <= MAX_MESSAGE_SIZE_BYTES

\* C20: sendAuditResult ends in an error when the inscription failed and when
\* the pointer message was not appended; when it returns normally the pointer
\* naming the inscribed topic is on the connection topic.
C20_SendPropagatesFailure ==
    \A r \in SendReturned :
        /\ r.inscribed = None => r.sendResult = "threw"
        /\ (r.submitted.called /\ ~r.submitted.appended) => r.sendResult = "threw"
        /\ r.sendResult = "ok" =>
              \E k \in 1..Len(ledger[channel]) : ledger[channel][k].ref = r.inscribed

-----------------------------------------------------------------------------
(* Reports of a session: reportFinalError, reportFinalResult and the loop   *)

\* the sendAuditResult invocations that carried an error payload
ErrorCalls == SelectSeq(sendCalls, LAMBDA c : c.status = "error")

\* the report topic the i-th sendAuditResult invocation of a run inscribed,
\* the connection topic being topic 1
ReportTopicOf(i) ==
    1 + Cardinality({j \in 1..i : sendCalls[j].outcome # "inscribeFailed"})

\* the pointers the invocations that went through put on a connection topic
PointersSent ==
    LET idx == SelectSeq([i \in 1..Len(sendCalls) |-> i],
                         LAMBDA i : sendCalls[i].outcome = "sent")
    IN [k \in 1..Len(idx) |-> hcs10Payload(ReportTopicOf(idx[k]))]

\* C21: reportFinalError builds {status: "error", report} where the report has
\* score 0, exactly one finding, of severity Critical, whose description holds
\* the reason, and an empty tools_used; with a connection topic id it hands this
\* payload to sendAuditResult, the path of a success report (one report topic
\* per inscription, one hcs://1 pointer on the connection topic per invocation
\* that went through); without a connection topic id the call changes nothing
\* on the ledger and makes no sendAuditResult invocation.
C21_ErrorReportPayload ==
    /\ [](/\ \A i \in 1..Len(ErrorCalls) :
               LET payload == ErrorCalls[i].payload IN
               /\ payload.status = "error"
               /\ payload.report.score = 0
               /\ Len(payload.report.findings) = 1
               /\ payload.report.findings[1].severity = "Critical"
               /\ payload.report.tools_used = <<>>
               /\ Some(ErrorCalls[i].topic) = requestData.reply_topic_id
          /\ IsSome(requestData.reply_topic_id) =>
               /\ Len(ErrorCalls) = Len(errorReasons)
               /\ \A i \in 1..Len(ErrorCalls) :
                     ErrorCalls[i].payload.report.findings[1].description[2] = errorReasons[i]
          /\ nextTopic = ReportTopicOf(Len(sendCalls))
          /\ topicLog[1] = PointersSent)
    /\ [][(Len(errorReasons') > Len(errorReasons) /\ requestData.reply_topic_id = None)
             => UNCHANGED <<transportVars, sendCalls>>]_vars

\* an error report and a success report both delivered on the connection topic
C21_Witness ==
    /\ Len(sendCalls) = 2
    /\ sendCalls[1].status = "error" /\ sendCalls[1].outcome = "sent"
    /\ sendCalls[2].status = "success" /\ sendCalls[2].outcome = "sent"
    /\ Len(topicLog[1]) = 2

\* a pointer to an inscribed report is on the connection topic of the session
PointerOnChannel ==
    \E i \in 1..Len(topicLog[1]), k \in 2..nextTopic : topicLog[1][i] = hcs10Payload(k)

\* C22: a dispatched session (its connection topic exists) eventually has a
\* pointer to a success report or to an error report on its connection topic,
\* whatever the engine, the collaborators and the transport do.
C22_EventuallyPointer == <>PointerOnChannel

\* C23: when an exception leaves the orchestration loop (chat.sendMessage
\* throws, a finalize call comes without arguments) the session has ended
\* with an error report sent for its connection topic.
C23_LoopExceptionReported ==
    spc = "threw" =>
       /\ ErrorCalls # <<>>
       /\ Some(Last(ErrorCalls).topic) = requestData.reply_topic_id

\* the engine asked for one of the three capabilities and its handling raised
\* an exception that the catch of line 167 turned into a result
RaisedInCall(act, response) ==
    /\ act.what \in {"getSourceCode", "runAuditToolInDocker", "executeSolidityTest"}
    /\ response.error \in {HostError, FetchFirst}

\* C24: an exception raised while a getSourceCode, runAuditToolInDocker or
\* executeSolidityTest call is prepared or executed becomes the success=false
\* result of that call, nothing is reported and the fetched files are kept; the
\* turn goes on with its next call, and after the last call the collected
\* results go to the engine, whose reply puts the session at the top of the
\* loop.
C24_CallExceptionIsolated ==
    [][/\ (spc = "calls" /\ callIdx < result.nCalls /\ spc' # "done" /\ callIdx' > callIdx
           /\ RaisedInCall(lastAct', Last(functionResponses')))
          => /\ functionResponses' = Append(functionResponses,
                   Response(lastAct'.what, FALSE, Last(functionResponses').error))
             /\ callIdx' = callIdx + 1
             /\ spc' = "calls"
             /\ UNCHANGED <<transportVars, errorReasons, sendCalls, fetchedFiles,
                            fetchedMainFilePath, loopCount, engineSent>>
       /\ (spc = "calls" /\ callIdx >= result.nCalls /\ functionResponses # <<>>)
          => /\ engineSent' = engineSent + 1
             /\ UNCHANGED <<functionResponses, errorReasons, sendCalls>>
             /\ spc' \in {"loop", "threw"}
             /\ lastAct'.what = "sendMessage"]_vars

\* the first call of a turn raised inside the runner, the second one was
\* executed, and both results went to the engine
C24_Witness ==
    /\ spc = "loop"
    /\ lastAct.what = "sendMessage"
    /\ Len(functionResponses) = 2
    /\ functionResponses[1] = Response("runAuditToolInDocker", FALSE, HostError)
    /\ functionResponses[2].success

\* the names the orchestrator handles
Capabilities ==
    {"getSourceCode", "runAuditToolInDocker", "executeSolidityTest", "finalizeAuditReport"}

\* C25: a function call whose name is none of the four capabilities puts a
\* success=false "function not found" result for that name in the results for
\* the engine, invokes no collaborator, reports nothing, and the turn goes on.
C25_UnknownNameAnswered ==
    [][(spc = "calls" /\ callIdx < result.nCalls /\ lastAct'.what \notin Capabilities)
          => /\ functionResponses' =
                   Append(functionResponses,
                          Response(lastAct'.what, FALSE, "Function not found."))
             /\ ~lastAct'.invoked
             /\ spc' = "calls"
             /\ callIdx' = callIdx + 1
             /\ UNCHANGED <<transportVars, errorReasons, sendCalls>>]_vars

\* C26: a getSourceCode call sets the fetched-file state from its own result:
\* a success stores the files and the main-file path of the result, a failure
\* leaves both absent whatever was stored before; a call whose id does not
\* match 0.0.<digits> does not invoke the fetch collaborator and fails with
\* "Invalid contractId format"; in every case the result is appended to the
\* results for the engine, nothing is reported and the turn goes on.
C26_FetchDeterminesState ==
    [][(spc = "calls" /\ callIdx < result.nCalls /\ lastAct'.what = "getSourceCode")
          => LET r == Last(functionResponses') IN
             /\ functionResponses' = Append(functionResponses, r)
             /\ r.name = "getSourceCode"
             /\ r.success =>
                   /\ lastAct'.invoked
                   /\ \E f \in FetchResults :
                         /\ f.success
                         /\ fetchedFiles' = Some(f.files)
                         /\ fetchedMainFilePath' = f.mainFileName
             /\ ~r.success => fetchedFiles' = None /\ fetchedMainFilePath' = None
             /\ ~lastAct'.invoked <=> r.error = "Invalid contractId format"
             /\ spc' = "calls"
             /\ callIdx' = callIdx + 1
             /\ UNCHANGED <<transportVars, errorReasons, sendCalls, loopCount>>]_vars

\* a fetch succeeded and the next call of the turn, with a malformed id,
\* cleared what it had stored
C26_Witness ==
    /\ spc = "calls"
    /\ Len(functionResponses) = 2
    /\ functionResponses[1] = Response("getSourceCode", TRUE, "none")
    /\ functionResponses[2] = Response("getSourceCode", FALSE, "Invalid contractId format")
    /\ lastAct = Act("getSourceCode", FALSE)
    /\ fetchedFiles = None
    /\ fetchedMainFilePath = None

-----------------------------------------------------------------------------
(* Properties of the sandboxed runners, checked under SpecRunner *)

\* the invocation created its directory or its container
CreatedWorkspace(r) == r.hostProjectDir # "absent" \/ r.container # "null"

Attempted(r, op) == \E i \in 1..Len(r.cleanup) : r.cleanup[i].op = op

\* C27: an invocation of a runner that created its temp directory or its
\* container attempts, before it exits with a success result, a failure
\* result or an exception, to remove the container (when one was created) and
\* then the temp directory; the directory removal is attempted also when the
\* container removal failed.
C27_WorkspaceRemoved ==
    \A n \in 1..Len(invocations) :
       LET r == invocations[n] IN
       CreatedWorkspace(r) =>
          /\ r.exit \in {"success", "failure", "exception"}
          /\ Attempted(r, "fs.rm")
          /\ Last(r.cleanup).op = "fs.rm"
          /\ r.container # "null" =>
                /\ Len(r.cleanup) = 2
                /\ r.cleanup[1].op = "container.remove"
          /\ \A i \in 1..Len(r.cleanup) :
                (r.cleanup[i].op = "container.remove" /\ ~r.cleanup[i].ok)
                   => \E j \in (i + 1)..Len(r.cleanup) : r.cleanup[j].op = "fs.rm"

\* an invocation left by an exception whose container could not be removed
\* and whose directory was removed
C27_Witness ==
    \E n \in 1..Len(invocations) :
       /\ invocations[n].exit = "exception"
       /\ invocations[n].container = "created"
       /\ invocations[n].cleanup = <<[op |-> "container.remove", ok |-> FALSE],
                                     [op |-> "fs.rm", ok |-> TRUE]>>
       /\ invocations[n].hostProjectDir = "removed"

-----------------------------------------------------------------------------
(* Properties of the replies of the engine, checked under SpecSession *)

\* chat.sendMessage has returned the reply held by result
Received == spc \notin {"idle", "start"} /\ ~(spc = "threw" /\ lastAct.what = "sendMessage")

\* the reply is empty, has no candidate, has a finish reason other than
\* TOOL_CALLS and STOP, or carries no function call
Abnormal(r) ==
    \/ r.kind \in {"empty", "noCandidate"}
    \/ r.finishReason \notin {"TOOL_CALLS", "STOP"}
    \/ r.nCalls <= 0

\* C29: once the engine has answered with an empty reply, a reply without
\* candidate, a finish reason other than TOOL_CALLS and STOP, or a STOP or
\* TOOL_CALLS reply without function calls, no further message goes to the
\* engine; the iteration that examines the reply calls reportFinalError once,
\* nothing of the reply is executed, and the session has ended with at least
\* one failure report.
C29_AbnormalReplyEndsSession ==
    /\ []((Received /\ Abnormal(result)) =>
             /\ spc = "calls" => (result.nCalls = 0 /\ functionResponses = <<>>)
             /\ SessionEnded => errorReasons # <<>>)
    /\ [][(Received /\ Abnormal(result)) =>
             /\ engineSent' = engineSent
             /\ result' = result
             /\ functionResponses' \in {functionResponses, <<>>}
             /\ ~lastAct'.invoked
             /\ (spc = "loop" /\ loopCount < MAX_LOOPS) =>
                   /\ Len(errorReasons') = Len(errorReasons) + 1
                   /\ spc' \in {"done", "threw", "afterLoop", "calls"}
             /\ spc = "loop" \/ spc' \in {"afterLoop", "done"}]_vars

\* a first turn with calls, then a TOOL_CALLS reply without function calls:
\* one report, two messages to the engine in all
C29_Witness ==
    /\ spc = "done"
    /\ result = [kind |-> "candidate", finishReason |-> "TOOL_CALLS", nCalls |-> 0]
    /\ errorReasons = <<"AI tool call error: No function calls provided.">>
    /\ engineSent = 2
    /\ loopCount = 2

\* what lastAct holds when the last step handled a function call of the turn
HandledCall(act) ==
    act.what \notin {"none", "sendMessage", "loopTop", "break", "afterLoop"}

\* C30: a success result is sent only by the step that handles a
\* finalizeAuditReport call carrying the report, and it carries that report; a
\* step that sends a result invokes no collaborator; the calls of a turn are
\* handled one at a time in the order of the reply, each one completed by the
\* step that starts it, so the calls listed before a finalize call have all
\* been handled when it is handled; once a result has been sent no call of
\* the session is left to handle.
C30_ResultAfterTerminalReport ==
    /\ [](/\ sendCalls # <<>> => ~(spc = "calls" /\ callIdx < result.nCalls)
          /\ spc = "calls" =>
                /\ callIdx <= IF result.nCalls < 0 THEN 0 ELSE result.nCalls
                /\ callIdx > 0 => HandledCall(lastAct)
                /\ callIdx = 0 => lastAct.what = "loopTop")
    /\ [][/\ Len(sendCalls') > Len(sendCalls) =>
                /\ Len(sendCalls') = Len(sendCalls) + 1
                /\ ~lastAct'.invoked
                /\ Last(sendCalls').status = "success" =>
                      /\ spc = "calls" /\ callIdx < result.nCalls
                      /\ lastAct'.what = "finalizeAuditReport"
                      /\ Last(sendCalls').payload.report =
                            EngineReport(requestData.contract_id_from_user)
                      /\ functionResponses' = functionResponses
                      /\ spc' = "done"
          /\ (spc = "calls" /\ callIdx < result.nCalls) =>
                /\ HandledCall(lastAct')
                /\ callIdx' = callIdx + 1 \/ (spc' = "threw" /\ callIdx' = callIdx)]_vars

\* a turn of two calls: the fetch collaborator was invoked and had returned
\* its result when the finalize call sent the success result
C30_Witness ==
    /\ spc = "done"
    /\ result.nCalls = 2
    /\ callIdx = 2
    /\ functionResponses = <<Response("getSourceCode", TRUE, "none")>>
    /\ lastAct = Act("finalizeAuditReport", FALSE)
    /\ Len(sendCalls) = 1
    /\ sendCalls[1].status = "success"
    /\ sendCalls[1].outcome = "sent"

-----------------------------------------------------------------------------
(* Further properties of processAuditRequest, checked under SpecSession *)

\* C31: an executeSolidityTest call that passes the checks of the orchestrator
\* (files fetched, original contract found with content, test code and test
\* file name given) gets the dynamic-test runner's own result as its result
\* for the engine, never a host-execution error.
C31_TestRunnerResultVerbatim ==
    [][(spc = "calls" /\ callIdx < result.nCalls
        /\ lastAct' = Act("executeSolidityTest", TRUE))
          => Last(functionResponses').error # HostError]_vars

\* the reason reportFinalResult gives for a missing report, line 235
MissingReportReason == "Internal error: Final report object was missing."

\* C32: when a finalizeAuditReport call without a report has been handled, no
\* success payload was handed to sendAuditResult, an error payload was handed
\* to it for the connection topic of the session, and the session is over.
C32_MissingReportIsReported ==
    (finalizeHandled /\ \A i \in 1..Len(sendCalls) : sendCalls[i].status # "success")
       => /\ SessionEnded
          /\ ErrorCalls # <<>>
          /\ Last(errorReasons) = MissingReportReason
          /\ Some(Last(ErrorCalls).topic) = requestData.reply_topic_id

-----------------------------------------------------------------------------
(* Properties of initializeHederaClient, checked under SpecClient *)

\* the delays the retry policy prescribes, in milliseconds
PrescribedDelays == <<1000, 2000, 4000, 8000>>

\* C33: initializeHederaClient makes at most five attempts, sleeps 1 s, 2 s,
\* 4 s and 8 s between consecutive attempts, makes no attempt after the first
\* success, ends the process after the fifth failure instead of retrying, and
\* once a client exists every call returns that client without a new attempt.
C33_CappedRetry ==
    /\ [](/\ attemptsMade <= 5
          /\ Len(sleeps) <= Len(PrescribedDelays)
          /\ \A k \in 1..Len(sleeps) : sleeps[k] = PrescribedDelays[k]
          /\ Len(sleeps) \in {attemptsMade - 1, attemptsMade} \cup {0}
          /\ (cpc = "try") => Len(sleeps) = attemptsMade
          /\ (cpc = "exited") <=> (attemptsMade = 5 /\ hederaClient = None /\ cpc # "try")
          /\ (cpc = "exited") => Len(sleeps) = 4
          /\ IsSome(hederaClient) =>
                /\ cpc = "idle"
                /\ \A k \in 1..Len(initReturns) :
                      initReturns[k].client = Val(hederaClient)
          /\ (hederaClient = None) => initReturns = <<>>)
    /\ [][IsSome(hederaClient) =>
             /\ hederaClient' = hederaClient
             /\ attemptsMade' = attemptsMade
             /\ sleeps' = sleeps]_vars

\* the fifth attempt succeeded after the four delays, and a later call got
\* the same client
C33_Witness ==
    /\ IsSome(hederaClient)
    /\ attemptsMade = 5
    /\ sleeps = PrescribedDelays
    /\ Len(initReturns) = 2

-----------------------------------------------------------------------------
(* Further properties of the subscription callback, checked under SpecListener *)

\* the exits of handleConnectionRequest taken after an exception was raised
ErrorExits == {"caught", "callbackThrew"}

\* C34: an exception raised while one envelope is handled does not leave the
\* subscription callback: it is caught, the subscription stays as it was
\* (running, same position, same start time), and the handling of the other
\* envelopes is not touched, so later envelopes are still delivered.
C34_HandlingErrorStaysInCallback ==
    /\ [](\A i \in Deliveries : deliveries[i].exit # "escaped")
    /\ [][\A i \in 1..Len(deliveries') :
            (/\ deliveries'[i].exit \in ErrorExits
             /\ (i > Len(deliveries) \/ deliveries[i].exit \notin ErrorExits)) =>
                /\ running /\ running'
                /\ queryStartTime' = queryStartTime
                /\ streamPos' >= streamPos
                /\ deliveries'[i].returned
                /\ \A j \in Deliveries : j # i => deliveries'[j] = deliveries[j]]_vars

\* the handling of an envelope raised an exception, and a later envelope was
\* delivered afterwards and handled to its end
C34_Witness ==
    \E i, j \in Deliveries :
        /\ i < j
        /\ deliveries[i].exit = "caught"
        /\ deliveries[j].env > deliveries[i].env
        /\ deliveries[j].exit = "dispatched"
        /\ deliveries[j].save = "stored"
        /\ restarts = 0

\* C35: in a session sendAuditResult is called at most once, whatever exit
\* processAuditRequest takes.
C35_AtMostOneReport ==
    Len(sendCalls) <= 1

\* C36: every reply of the engine is examined before the session ends: a
\* session that has ended without an exception has run one loop iteration
\* (lines 40-41) for each chat.sendMessage call it made, so a
\* finalizeAuditReport call in any reply is handled.
C36_EveryReplyExamined ==
    /\ [](spc = "done" => loopCount = engineSent)
    /\ [][spc = "loop" => loopCount' = loopCount + 1]_vars

\* C37: when the process starts again and reloads the checkpoint of the state
\* file, the start time of the new subscription is greater than the consensus
\* timestamp of the envelope whose save wrote that checkpoint, and the
\* subscription does not deliver that envelope again.
C37_ResumeStrictlyAfter ==
    [][(~running /\ running' /\ IsSome(stateFile) /\ IsSome(lastProcessedTimestamp')) =>
          \A i \in Deliveries :
             (/\ deliveries[i].save = "stored"
              /\ toISOString(TimestampOf(i)) = Val(stateFile)) =>
                 /\ queryStartTime' > TimestampOf(i)
                 /\ streamPos' > deliveries[i].env]_vars

-----------------------------------------------------------------------------
(* The agent's own messages on the inbound topic, checked under Spec *)

\* C38: an envelope that is one of the agent's own connection_created acks
\* is skipped when it is delivered back: no topic is created, nothing is
\* appended and the callback is not called.  A topic is created by the
\* handler only for a connection_request envelope and at most once for each,
\* and an ack is appended only after such a creation, so the channels
\* created never exceed the connection_request envelopes delivered and the
\* acks never exceed the channels.
C38_OwnAckNeverRouted ==
    /\ [](/\ nextTopic <= delivered
          /\ Len(inboundLog) <= nextTopic
          /\ (hpc # "idle" /\ ~IsRequest(message)) =>
                /\ hpc = "done"
                /\ hops = <<>>
                /\ connectionTopicId = None)
    /\ [][/\ (delivered' = delivered + 1 /\ message'.contents \in OwnEnvelopes) =>
                /\ hpc' = "done"
                /\ outcome' = "skipped"
                /\ UNCHANGED <<nextTopic, inboundLog, topicLog, dispatches>>
          /\ (nextTopic' # nextTopic) =>
                /\ nextTopic' = nextTopic + 1
                /\ IsRequest(message)
                /\ hops = <<>>
          /\ (inboundLog' # inboundLog) =>
                /\ Len(inboundLog') = Len(inboundLog) + 1
                /\ IsRequest(message)
                /\ hops = <<"create">>]_vars

\* the ack of the first request was delivered back as the second envelope and
\* skipped
C38_Witness ==
    /\ Len(inboundLog) = 1
    /\ message.sequenceNumber = 2
    /\ message.contents = OwnEnvelope(inboundLog[1])
    /\ hpc = "done"
    /\ outcome = "skipped"
    /\ nextTopic = 1

\* C39: while the process runs, a timestamp held by the state file is never
\* ahead of the checkpoint held in memory: the process holds a checkpoint and
\* the file's timestamp is not greater than it, also after a write of the
\* state file has failed.
C39_PersistedNotAhead ==
    (running /\ IsSome(stateFile)) =>
        /\ IsSome(lastProcessedTimestamp)
        /\ Val(stateFile) <= Val(lastProcessedTimestamp)

=============================================================================
